---- MODULE Spec2Model ----
(***************************************************************************)
(* A model of the data-acquisition layer of TVStream's IPTVFetchService:   *)
(* the module-level request limiter (requestQueue / activeRequests), the   *)
(* retrying fetcher built on it, and the cache-aside store in front of it. *)
(***************************************************************************)
EXTENDS Integers, Sequences, FiniteSets, TLC

(***************************************************************************)
(* Part 1.  The limiter and the retrying fetcher.                          *)
(*                                                                         *)
(* A caller is one logical fetch: one outside call of fetchWithRetry(url). *)
(* Its attempts are nested: attempt k+1 is called from inside the request  *)
(* callback of attempt k, so attempt k is still inside enqueueRequest's    *)
(* try block while attempt k+1 runs.                                       *)
(***************************************************************************)

\* Number of logical fetches that may be started.
NumCallers == 3

\* DEFAULT_CONFIG.maxRetries and DEFAULT_CONFIG.maxConcurrentRequests.
DefaultMaxRetries == 3
DefaultMaxConcurrentRequests == 2

Callers == 1..NumCallers

\* The attempts one logical fetch can make: retryCount runs 0..maxRetries.
Attempts == 0..DefaultMaxRetries

VARIABLES
  config,          \* this.config: maxRetries, maxConcurrentRequests
  activeRequests,  \* module-level counter
  requestQueue,    \* module-level queue of suspended callers, oldest first
  woken,           \* waiters whose promise was resolved and whose
                   \* continuation has not run yet, in resolution order
  pc,              \* position of each caller's innermost attempt
  retryCount,      \* retryCount argument of the innermost attempt
  held,            \* attempts of the caller between activeRequests++ and
                   \* activeRequests--
  result,          \* outcome of the logical fetch
  incs,            \* history: times attempt k of caller p ran activeRequests++
  decs             \* history: times attempt k of caller p ran activeRequests--

limiterVars == <<config, activeRequests, requestQueue, woken, pc, retryCount,
                 held, result, incs, decs>>

\* The state of Part 2 (the cache-aside store and its callers).
VARIABLES
  type,           \* this.type
  store,          \* db.settings: key -> stored value
  m3uCache,       \* this.m3uCache
  now,            \* Date.now()
  calls,          \* history: calls made so far
  localStorage,   \* window.localStorage: the keys it holds
  stale,          \* history: the data each client had in hand, read or
                  \* fetched and not yet written, when a clearCache completed
  cpc,            \* position of the top frame of each client
  stack,          \* cache keys of the client's getCachedOrFetch frames
  guide,          \* getEPG: filteredData, kept across the nested call
  acquired,       \* history: how the guide acquisition of the call ended
  seen,           \* cacheItem read by the top frame
  val,            \* freshData of the top frame; cacheKeys of clearCache
  ret,            \* what the client's call settled with
  producerCalls   \* history: times fetchFn was invoked, per cache key

cacheVars == <<type, store, m3uCache, localStorage, now, calls, stale, cpc, stack,
               guide, acquired, seen, val, ret, producerCalls>>

\* The state of the useIPTV hook.
VARIABLES
  isLoading,      \* useState(false)
  error,          \* useState<string | null>(null): "null" or "message"
  op              \* the hook action each client runs, and its stage

hookVars == <<isLoading, error, op>>

\* The arguments and the result of a function that is applied on its own.
VARIABLES
  input,          \* the arguments
  output          \* whether the call was made, and the value returned

pureVars == <<input, output>>

\* No function is being applied.
NoInput == [none |-> TRUE]
NoOutput == [calls |-> 0, value |-> <<>>]

PureIdle == input = NoInput /\ output = NoOutput

\* The configurations a service instance may be constructed with: any
\* Partial<IPTVFetchConfig> is merged over DEFAULT_CONFIG.
Configs ==
  [maxRetries : 0..DefaultMaxRetries,
   maxConcurrentRequests : 1..DefaultMaxConcurrentRequests]

LimiterInit ==
  /\ config \in Configs
  /\ activeRequests = 0
  /\ requestQueue = <<>>
  /\ woken = <<>>
  /\ pc = [p \in Callers |-> "idle"]
  /\ retryCount = [p \in Callers |-> 0]
  /\ held = [p \in Callers |-> 0]
  /\ result = [p \in Callers |-> "none"]
  /\ incs = [p \in Callers |-> [k \in Attempts |-> 0]]
  /\ decs = [p \in Callers |-> [k \in Attempts |-> 0]]

\* activeRequests++ by attempt k of caller p (line 149).
Acquire(p, k) ==
  /\ activeRequests' = activeRequests + 1
  /\ held' = [held EXCEPT ![p] = @ + 1]
  /\ incs' = [incs EXCEPT ![p][k] = @ + 1]

\* enqueueRequest without the pacing sleep: request() is called as soon as
\* the slot is taken.
EnqueueRequestUnpaced(p, k) ==
  IF activeRequests >= config.maxConcurrentRequests
  THEN /\ requestQueue' = Append(requestQueue, p)
       /\ pc' = [pc EXCEPT ![p] = "queued"]
       /\ UNCHANGED <<activeRequests, held, incs>>
  ELSE /\ Acquire(p, k)
       /\ pc' = [pc EXCEPT ![p] = "request"]
       /\ UNCHANGED requestQueue

\* The synchronous head of enqueueRequest for attempt k of caller p: at
\* capacity the caller pushes its resolver and suspends; otherwise it runs on
\* to activeRequests++ and to the pacing sleep.
EnqueueRequest(p, k) ==
  IF activeRequests >= config.maxConcurrentRequests
  THEN /\ requestQueue' = Append(requestQueue, p)
       /\ pc' = [pc EXCEPT ![p] = "queued"]
       /\ UNCHANGED <<activeRequests, held, incs>>
  ELSE /\ Acquire(p, k)
       /\ pc' = [pc EXCEPT ![p] = "pacing"]
       /\ UNCHANGED requestQueue

\* An outside call fetchWithRetry(url): retryCount = 0.
FetchWithRetry(p) ==
  /\ pc[p] = "idle"
  /\ EnqueueRequest(p, 0)
  /\ UNCHANGED <<config, woken, retryCount, result, decs>>
  /\ UNCHANGED <<cacheVars, hookVars, pureVars>>

\* The continuation of `await promise` of a waiter that was resolved.
\* Continuations run in the order their promises were resolved.
Resume(p) ==
  /\ woken # <<>>
  /\ Head(woken) = p
  /\ pc[p] = "woken"
  /\ woken' = Tail(woken)
  /\ Acquire(p, retryCount[p])
  /\ pc' = [pc EXCEPT ![p] = "pacing"]
  /\ UNCHANGED <<config, requestQueue, retryCount, result, decs>>
  /\ UNCHANGED <<cacheVars, hookVars, pureVars>>

\* The pacing sleep (rateLimitDelay) is over: request() is called.
Pace(p) ==
  /\ pc[p] = "pacing"
  /\ pc' = [pc EXCEPT ![p] = "request"]
  /\ UNCHANGED <<config, activeRequests, requestQueue, woken, retryCount,
                 held, result, incs, decs>>
  /\ UNCHANGED <<cacheVars, hookVars, pureVars>>

\* One transport strategy answered 2xx: the request callback returns.
RequestSucceeds(p) ==
  /\ pc[p] = "request"
  /\ pc' = [pc EXCEPT ![p] = "finally"]
  /\ result' = [result EXCEPT ![p] = "ok"]
  /\ UNCHANGED <<config, activeRequests, requestQueue, woken, retryCount,
                 held, incs, decs>>
  /\ UNCHANGED <<cacheVars, hookVars, pureVars>>

\* Every transport strategy failed: back off and retry while
\* retryCount < maxRetries, else throw.
RequestFails(p) ==
  /\ pc[p] = "request"
  /\ IF retryCount[p] < config.maxRetries
     THEN /\ pc' = [pc EXCEPT ![p] = "backoff"]
          /\ UNCHANGED result
     ELSE /\ pc' = [pc EXCEPT ![p] = "finally"]
          /\ result' = [result EXCEPT ![p] = "failed"]
  /\ UNCHANGED <<config, activeRequests, requestQueue, woken, retryCount,
                 held, incs, decs>>
  /\ UNCHANGED <<cacheVars, hookVars, pureVars>>

\* The backoff sleep is over: the request callback of attempt retryCount
\* calls fetchWithRetry(url, retryCount + 1) and awaits its result, still
\* inside the try block of its own enqueueRequest.
Retry(p) ==
  /\ pc[p] = "backoff"
  /\ retryCount' = [retryCount EXCEPT ![p] = @ + 1]
  /\ EnqueueRequest(p, retryCount[p] + 1)
  /\ UNCHANGED <<config, woken, result, decs>>
  /\ UNCHANGED <<cacheVars, hookVars, pureVars>>

\* Finally without the wake-up: the counter is decremented but the head of
\* the queue is never resolved.
FinallyNoWake(p) ==
  /\ pc[p] = "finally"
  /\ held[p] > 0
  /\ activeRequests' = activeRequests - 1
  /\ held' = [held EXCEPT ![p] = @ - 1]
  /\ decs' = [decs EXCEPT ![p][held[p] - 1] = @ + 1]
  /\ pc' = [pc EXCEPT ![p] = IF held[p] = 1 THEN "done" ELSE @]
  /\ UNCHANGED <<requestQueue, woken>>
  /\ UNCHANGED <<config, retryCount, result, incs>>
  /\ UNCHANGED <<cacheVars, hookVars, pureVars>>

\* The release written after the awaited request instead of in a finally
\* block: a request that throws skips activeRequests-- and the wake-up.
FinallyOnlyOnReturn(p) ==
  /\ pc[p] = "finally"
  /\ held[p] > 0
  /\ held' = [held EXCEPT ![p] = @ - 1]
  /\ IF result[p] = "failed"
     THEN /\ pc' = [pc EXCEPT ![p] = IF held[p] = 1 THEN "done" ELSE @]
          /\ UNCHANGED <<activeRequests, decs, requestQueue, woken>>
     ELSE /\ activeRequests' = activeRequests - 1
          /\ decs' = [decs EXCEPT ![p][held[p] - 1] = @ + 1]
          /\ IF requestQueue # <<>>
             THEN /\ requestQueue' = Tail(requestQueue)
                  /\ woken' = Append(woken, Head(requestQueue))
                  /\ pc' = [pc EXCEPT ![Head(requestQueue)] = "woken",
                                      ![p] = IF held[p] = 1 THEN "done" ELSE @]
             ELSE /\ pc' = [pc EXCEPT ![p] = IF held[p] = 1 THEN "done" ELSE @]
                  /\ UNCHANGED <<requestQueue, woken>>
  /\ UNCHANGED <<config, retryCount, result, incs>>
  /\ UNCHANGED <<cacheVars, hookVars, pureVars>>

\* The finally block of the innermost attempt of p that has not left
\* enqueueRequest yet: activeRequests--, then shift the queue and resolve
\* its head.  The outcome then reaches the enclosing attempt, whose own
\* finally block runs next.
Finally(p) ==
  /\ pc[p] = "finally"
  /\ held[p] > 0
  /\ activeRequests' = activeRequests - 1
  /\ held' = [held EXCEPT ![p] = @ - 1]
  /\ decs' = [decs EXCEPT ![p][held[p] - 1] = @ + 1]
  /\ IF requestQueue # <<>>
     THEN /\ requestQueue' = Tail(requestQueue)
          /\ woken' = Append(woken, Head(requestQueue))
          /\ pc' = [pc EXCEPT ![Head(requestQueue)] = "woken",
                              ![p] = IF held[p] = 1 THEN "done" ELSE @]
     ELSE /\ pc' = [pc EXCEPT ![p] = IF held[p] = 1 THEN "done" ELSE @]
          /\ UNCHANGED <<requestQueue, woken>>
  /\ UNCHANGED <<config, retryCount, result, incs>>
  /\ UNCHANGED <<cacheVars, hookVars, pureVars>>

\* The steps the event loop takes for a fetch that was started.
Progress(p) ==
  \/ Resume(p)
  \/ Pace(p)
  \/ RequestSucceeds(p)
  \/ RequestFails(p)
  \/ Retry(p)
  \/ Finally(p)

(***************************************************************************)
(* Part 2.  The cache-aside store, the catalog and guide operations built  *)
(* on it, and clearCache.                                                  *)
(*                                                                         *)
(* A client is one call of a public method, numbered in the order the     *)
(* calls are made; calls overlap freely.  A call is a stack                *)
(* of getCachedOrFetch frames: getEPG(channelId) may call getLiveStreams() *)
(* from its producer, and in playlist mode getLiveStreams calls            *)
(* getM3UContent from its producer.  The network fetch of a producer is    *)
(* one pending step here; its passage through the limiter is Part 1.       *)
(* The store itself is taken to be available: db.settings.get and put do   *)
(* not fail.                                                               *)
(***************************************************************************)

\* Number of calls made in all, and the last instant of the clock.
NumClients == 2
MaxTime == 2

\* DEFAULT_CONFIG.cacheTime, in units of half an hour.
CacheTime == 2

Clients == 1..NumClients

\* `cache:${kind}:${baseUrl}:${username}:${selector}`; server and account
\* are fixed for one service instance.
Key(kind, sel) == <<"cache", kind, sel>>

\* `cache:m3u:${baseUrl}:${username}`
M3UKey == <<"cache", "m3u">>

LiveSelectors == {"cat1", "cat2", "all"}
EPGSelectors == {"all", "ch1"}

CacheKeys ==
  {Key("live", s) : s \in LiveSelectors} \cup {Key("epg", s) : s \in EPGSelectors}
    \cup {Key("categories", "live")} \cup {M3UKey}

\* A row of db.settings that is no cache entry (db.setLastUpdate).
SettingKeys == {<<"lastUpdate_epg">>}

StoreKeys == CacheKeys \cup SettingKeys

Kind(k) == k[2]

\* key.startsWith('cache:')
HasCachePrefix(k) == k[1] = "cache"

\* null, and the empty list [].
Null == {}
EmptyList == {}

Absent == [kind |-> "absent", data |-> {}, timestamp |-> 0]
Corrupt == [kind |-> "corrupt", data |-> {}, timestamp |-> 0]
Setting == [kind |-> "setting", data |-> {}, timestamp |-> 0]

\* JSON.stringify({ data, timestamp })
Item(d, t) == [kind |-> "item", data |-> d, timestamp |-> t]

\* The payload the network fetch of a producer run by client c brings back.
Payload(c) == {ToString(c)}

\* A validity test that still accepts an entry aged exactly cacheTime.
IsValidAtTTL(e, t) == e.kind = "item" /\ t - e.timestamp <= CacheTime

\* JSON.parse succeeds and now - cachedData.timestamp < this.config.cacheTime.
IsValid(e, t) == e.kind = "item" /\ t - e.timestamp < CacheTime

\* What db.settings may hold when a session starts: entries a previous
\* session left, and a value under a cache key that does not parse.
InitialStores ==
  {[k \in StoreKeys |->
      IF k \in SettingKeys THEN Setting
      ELSE IF k = Key("live", "cat1") THEN e[1]
      ELSE IF k = Key("live", "cat2") THEN e[2]
      ELSE Absent] :
     e \in {<<Absent, Absent>>, <<Corrupt, Absent>>,
            <<Item({"old"}, 0), Item({"old"}, 0)>>}}

\* What localStorage holds when the service is constructed: a guide key of
\* an earlier version of the cache, and the stored credentials.
LocalKeys == {<<"epg", "all">>, <<"iptv_credentials">>}

NoReturn == [status |-> "none", data |-> {}]

\* The hook as it is mounted, no action running.
HookIdle ==
  /\ isLoading = FALSE
  /\ error = "null"
  /\ op = [c \in Clients |-> "none"]

CacheInit ==
  /\ type \in {"xtream", "m3u_url"}
  /\ store \in InitialStores
  /\ m3uCache = Null
  /\ now = 0
  /\ calls = 0
  /\ stale = [c \in Clients |-> EmptyList]
  /\ localStorage = LocalKeys
  /\ cpc = [c \in Clients |-> "idle"]
  /\ stack = [c \in Clients |-> <<>>]
  /\ guide = [c \in Clients |-> {}]
  /\ acquired = [c \in Clients |-> "none"]
  /\ seen = [c \in Clients |-> Absent]
  /\ val = [c \in Clients |-> {}]
  /\ ret = [c \in Clients |-> NoReturn]
  /\ producerCalls = [k \in CacheKeys |-> 0]
  /\ HookIdle

Top(c) == stack[c][Len(stack[c])]
Below(c) == SubSeq(stack[c], 1, Len(stack[c]) - 1)

\* The guide documents a download may bring: channels as the parser
\* records them (id, number of programmes).
XmlDocs == {"guide", "otherGuide", "noprogrammes", "parsererror", "throws"}

\* What fetch(epgUrl) may end with.
Downloads == {"networkError", "httpError", "notXml"} \cup XmlDocs

\* fetchEPGXMLDirect: null unless the response is ok and contains '<?xml'.
FetchEPGXMLDirect(d) == IF d \in XmlDocs THEN d ELSE "null"

\* A parser that returns what it read before the parsererror marker.
ParseEPGXMLPartial(doc) ==
  IF doc = "parsererror" THEN {[id |-> "ch1", programs |-> 1]}
  ELSE IF doc = "throws" THEN {}
  ELSE IF doc = "noprogrammes" THEN {[id |-> "ch1", programs |-> 0]}
  ELSE IF doc = "otherGuide" THEN {[id |-> "espn", programs |-> 1]}
  ELSE {[id |-> "ch1", programs |-> 1], [id |-> "empty", programs |-> 0]}

\* parseEPGXML: [] on a parsererror marker and on any exception.
ParseEPGXML(doc) ==
  IF doc = "parsererror" THEN {}
  ELSE IF doc = "throws" THEN {}
  ELSE IF doc = "noprogrammes" THEN {[id |-> "ch1", programs |-> 0]}
  ELSE IF doc = "otherGuide" THEN {[id |-> "espn", programs |-> 1]}
  ELSE {[id |-> "ch1", programs |-> 1], [id |-> "empty", programs |-> 0]}

\* A filter that keeps every channel of the guide.
FilteredDataAll(epgData) == epgData

\* getEPG: filteredData, the channels with programs.length > 0.
FilteredData(epgData) == {channel \in epgData : channel.programs > 0}

\* Call number c is made, after the calls before it were made.
Begin(c, k) ==
  /\ cpc[c] = "idle"
  /\ calls = c - 1
  /\ calls' = calls + 1
  /\ stack' = [stack EXCEPT ![c] = k]
  /\ guide' = [guide EXCEPT ![c] = {}]
  /\ acquired' = [acquired EXCEPT ![c] = "none"]

\* `const cached = await db.settings.get(cacheKey)`: the row read.
Read(c, k) ==
  /\ seen' = [seen EXCEPT ![c] = store[k]]
  /\ cpc' = [cpc EXCEPT ![c] = "check"]

\* getLiveStreams(categoryId): getCachedOrFetch reads the row of its key.
GetLiveStreams(c, sel) ==
  /\ Begin(c, <<Key("live", sel)>>)
  /\ Read(c, Key("live", sel))
  /\ ret' = [ret EXCEPT ![c] = NoReturn]
  /\ UNCHANGED <<type, localStorage, stale, store, m3uCache, now, val, producerCalls>>
  /\ UNCHANGED <<limiterVars, hookVars, pureVars>>

\* getEPG(channelId?)
GetEPG(c, sel) ==
  /\ Begin(c, <<Key("epg", sel)>>)
  /\ Read(c, Key("epg", sel))
  /\ ret' = [ret EXCEPT ![c] = NoReturn]
  /\ UNCHANGED <<type, localStorage, stale, store, m3uCache, now, val, producerCalls>>
  /\ UNCHANGED <<limiterVars, hookVars, pureVars>>

\* getM3UContent() called from outside: the hold short-circuits everything.
GetM3UContent(c) ==
  /\ Begin(c, IF m3uCache # Null THEN <<>> ELSE <<M3UKey>>)
  /\ IF m3uCache # Null
     THEN /\ cpc' = [cpc EXCEPT ![c] = "done"]
          /\ ret' = [ret EXCEPT ![c] = [status |-> "ok", data |-> m3uCache]]
          /\ UNCHANGED seen
     ELSE /\ Read(c, M3UKey)
          /\ ret' = [ret EXCEPT ![c] = NoReturn]
  /\ UNCHANGED <<type, localStorage, stale, store, m3uCache, now, val, producerCalls>>
  /\ UNCHANGED <<limiterVars, hookVars, pureVars>>

\* What stages 2 and 3 of getEPG(channelId) may return: a channel that
\* findMatchingChannel picks among filteredData, or nothing.
MatchResults(filtered) == {EmptyList} \cup {{channel} : channel \in filtered}

\* The top frame of c settles with value v, or rejects (threw).  Its caller
\* goes on: getM3UContent turns a rejection into null, a get*Streams
\* producer turns null into [], getEPG catches a failed getLiveStreams()
\* and goes on matching; a frame with no caller settles the call.
Settle(c, v, threw) ==
  IF Kind(Top(c)) = "m3u"
  THEN LET content == IF threw THEN Null ELSE v IN
       IF Below(c) = <<>>
       THEN /\ cpc' = [cpc EXCEPT ![c] = "done"]
            /\ ret' = [ret EXCEPT ![c] = [status |-> "ok", data |-> content]]
            /\ stack' = [stack EXCEPT ![c] = <<>>]
            /\ val' = [val EXCEPT ![c] = {}]
       ELSE /\ cpc' = [cpc EXCEPT ![c] = "put"]
            /\ val' = [val EXCEPT ![c] = IF content = Null THEN EmptyList ELSE content]
            /\ stack' = [stack EXCEPT ![c] = Below(c)]
            /\ UNCHANGED ret
  ELSE IF Below(c) = <<>>
  THEN /\ cpc' = [cpc EXCEPT ![c] = "done"]
       /\ ret' = [ret EXCEPT ![c] =
                    IF threw THEN [status |-> "threw", data |-> {}]
                    ELSE [status |-> "ok", data |-> v]]
       /\ stack' = [stack EXCEPT ![c] = <<>>]
       /\ val' = [val EXCEPT ![c] = {}]
  ELSE /\ \E m \in MatchResults(guide[c]) : val' = [val EXCEPT ![c] = m]
       /\ cpc' = [cpc EXCEPT ![c] = "put"]
       /\ stack' = [stack EXCEPT ![c] = Below(c)]
       /\ UNCHANGED ret

\* fetchFn() is called.  In playlist mode the producer of get*Streams calls
\* getM3UContent: the hold if there is one, else a nested getCachedOrFetch.
\* Every other producer starts its network fetch.
StartProducer(c) ==
  IF Kind(Top(c)) \in {"live", "categories"} /\ type = "m3u_url"
  THEN IF m3uCache # Null
       THEN /\ val' = [val EXCEPT ![c] = m3uCache]
            /\ cpc' = [cpc EXCEPT ![c] = "put"]
            /\ seen' = [seen EXCEPT ![c] = Absent]
            /\ UNCHANGED stack
       ELSE /\ stack' = [stack EXCEPT ![c] = Append(@, M3UKey)]
            /\ Read(c, M3UKey)
            /\ UNCHANGED val
  ELSE /\ cpc' = [cpc EXCEPT ![c] = "produce"]
       /\ seen' = [seen EXCEPT ![c] = Absent]
       /\ UNCHANGED <<stack, val>>

\* getCachedOrFetch after the read: a valid entry is returned, anything
\* else (no row, a row that does not parse, an expired entry) calls fetchFn.
Check(c) ==
  /\ cpc[c] = "check"
  /\ IF IsValid(seen[c], now)
     THEN /\ Settle(c, seen[c].data, FALSE)
          /\ seen' = [seen EXCEPT ![c] = Absent]
          /\ UNCHANGED producerCalls
     ELSE /\ producerCalls' = [producerCalls EXCEPT ![Top(c)] = @ + 1]
          /\ StartProducer(c)
          /\ UNCHANGED ret
  /\ UNCHANGED <<type, localStorage, stale, store, m3uCache, now, calls,  guide,
                 acquired>>
  /\ UNCHANGED <<limiterVars, hookVars, pureVars>>

\* A network producer of a catalog or playlist frame brings its payload;
\* the playlist producer also sets the hold.
ProducerReturns(c) ==
  /\ cpc[c] = "produce"
  /\ Kind(Top(c)) \in {"live", "categories", "m3u"}
  /\ val' = [val EXCEPT ![c] = Payload(c)]
  /\ m3uCache' = IF Kind(Top(c)) = "m3u" THEN Payload(c) ELSE m3uCache
  /\ cpc' = [cpc EXCEPT ![c] = "put"]
  /\ UNCHANGED <<type, localStorage, stale, store, now, calls, stack,  guide,
                 acquired, seen, ret, producerCalls>>
  /\ UNCHANGED <<limiterVars, hookVars, pureVars>>

\* The network fetch failed for good: fetchFn rejects, getCachedOrFetch
\* rethrows and writes nothing.
ProducerThrows(c) ==
  /\ cpc[c] = "produce"
  /\ Kind(Top(c)) \in {"live", "categories", "m3u"}
  /\ Settle(c, {}, TRUE)
  /\ UNCHANGED <<type, localStorage, stale, store, m3uCache, now, calls,  guide,
                 acquired, seen, producerCalls>>
  /\ UNCHANGED <<limiterVars, hookVars, pureVars>>

\* The producer of getEPG: fetchEPGXMLDirect ends with download d, then
\* parseEPGXML, the filter of empty channels and stage 1 (id equality).
\* With a channelId and no channel of that id, stage 2 calls
\* getLiveStreams().
EPGProducer(c, d) ==
  /\ cpc[c] = "produce"
  /\ Kind(Top(c)) = "epg"
  /\ LET xml == FetchEPGXMLDirect(d)
         filtered == FilteredData(ParseEPGXML(xml))
         sel == Top(c)[3]
     IN IF xml = "null"
        THEN /\ acquired' = [acquired EXCEPT ![c] = "downloadFailed"]
             /\ val' = [val EXCEPT ![c] = EmptyList]
             /\ cpc' = [cpc EXCEPT ![c] = "put"]
             /\ UNCHANGED <<guide, stack, seen>>
        ELSE /\ acquired' = [acquired EXCEPT ![c] =
                    IF xml \in {"parsererror", "throws"} THEN "parseFailed"
                    ELSE "parsed"]
             /\ guide' = [guide EXCEPT ![c] = filtered]
             /\ IF sel = "all"
                THEN /\ val' = [val EXCEPT ![c] = filtered]
                     /\ cpc' = [cpc EXCEPT ![c] = "put"]
                     /\ UNCHANGED <<stack, seen>>
                ELSE IF \E channel \in filtered : channel.id = sel
                THEN /\ val' = [val EXCEPT ![c] = {channel \in filtered : channel.id = sel}]
                     /\ cpc' = [cpc EXCEPT ![c] = "put"]
                     /\ UNCHANGED <<stack, seen>>
                ELSE /\ stack' = [stack EXCEPT ![c] = Append(@, Key("live", "all"))]
                     /\ Read(c, Key("live", "all"))
                     /\ UNCHANGED val
  /\ UNCHANGED <<type, localStorage, stale, store, m3uCache, now, calls, ret, producerCalls>>
  /\ UNCHANGED <<limiterVars, hookVars, pureVars>>

\* A put that keeps the timestamp of the entry it replaces.
PutKeepsTimestamp(c) ==
  /\ cpc[c] = "put"
  /\ store' = [store EXCEPT ![Top(c)] =
                Item(val[c], IF @.kind = "item" THEN @.timestamp ELSE now)]
  /\ Settle(c, val[c], FALSE)
  /\ guide' = [guide EXCEPT ![c] = IF Kind(Top(c)) = "epg" THEN {} ELSE @]
  /\ UNCHANGED <<type, localStorage, stale, m3uCache, now, calls,  acquired, seen,
                 producerCalls>>
  /\ UNCHANGED <<limiterVars, hookVars, pureVars>>

\* A put that merges the fresh data into the entry it finds.
PutMerges(c) ==
  /\ cpc[c] = "put"
  /\ store' = [store EXCEPT ![Top(c)] = Item(@.data \cup val[c], now)]
  /\ Settle(c, val[c], FALSE)
  /\ guide' = [guide EXCEPT ![c] = IF Kind(Top(c)) = "epg" THEN {} ELSE @]
  /\ UNCHANGED <<type, localStorage, stale, m3uCache, now, calls,  acquired, seen,
                 producerCalls>>
  /\ UNCHANGED <<limiterVars, hookVars, pureVars>>

\* A put that stores nothing when the producer came back empty-handed.
PutUnlessEmpty(c) ==
  /\ cpc[c] = "put"
  /\ store' = IF val[c] = EmptyList THEN store
              ELSE [store EXCEPT ![Top(c)] = Item(val[c], now)]
  /\ Settle(c, val[c], FALSE)
  /\ guide' = [guide EXCEPT ![c] = IF Kind(Top(c)) = "epg" THEN {} ELSE @]
  /\ UNCHANGED <<type, localStorage, stale, m3uCache, now, calls,  acquired, seen,
                 producerCalls>>
  /\ UNCHANGED <<limiterVars, hookVars, pureVars>>

\* db.settings.put of the whole entry with the current time, then
\* `return freshData`.
Put(c) ==
  /\ cpc[c] = "put"
  /\ store' = [store EXCEPT ![Top(c)] = Item(val[c], now)]
  /\ Settle(c, val[c], FALSE)
  /\ guide' = [guide EXCEPT ![c] = IF Kind(Top(c)) = "epg" THEN {} ELSE @]
  /\ UNCHANGED <<type, localStorage, stale, m3uCache, now, calls,  acquired, seen,
                 producerCalls>>
  /\ UNCHANGED <<limiterVars, hookVars, pureVars>>

\* clearCache() is called: the transaction is requested.
ClearCache(c) ==
  /\ Begin(c, <<>>)
  /\ cpc' = [cpc EXCEPT ![c] = "clear"]
  /\ ret' = [ret EXCEPT ![c] = NoReturn]
  /\ UNCHANGED <<type, localStorage, stale, store, m3uCache, now, seen, val, producerCalls>>
  /\ UNCHANGED <<limiterVars, hookVars, pureVars>>

\* const cacheKeys = ...where('key').startsWith('cache:').keys()
KeysWithCachePrefix == {k \in StoreKeys : HasCachePrefix(k) /\ store[k] # Absent}

\* The data client c has in hand: freshData it has yet to put, or the data
\* of a valid entry it has read and is about to return.
InHand(c) ==
  IF cpc[c] = "put" THEN val[c]
  ELSE IF cpc[c] = "check" /\ IsValid(seen[c], now) THEN seen[c].data
  ELSE EmptyList

\* clearCache that deletes the rows and leaves the playlist hold.
ClearCacheKeepsHold(c) ==
  /\ cpc[c] = "clear"
  /\ val' = [val EXCEPT ![c] = KeysWithCachePrefix]
  /\ store' = [k \in StoreKeys |->
                IF k \in KeysWithCachePrefix THEN Absent ELSE store[k]]
  /\ stale' = [d \in Clients |-> IF InHand(d) # EmptyList THEN InHand(d) ELSE stale[d]]
  /\ cpc' = [cpc EXCEPT ![c] = "done"]
  /\ ret' = [ret EXCEPT ![c] = [status |-> "ok", data |-> {}]]
  /\ UNCHANGED <<type, localStorage, m3uCache, now, calls, stack, guide, acquired,
                 seen, producerCalls>>
  /\ UNCHANGED <<limiterVars, hookVars, pureVars>>

\* The read-write transaction of clearCache: every row whose key starts
\* with 'cache:' is deleted (bulkDelete(cacheKeys)) and the playlist hold is
\* reset.  val[c] keeps cacheKeys, the keys the transaction found.
ClearCacheTransaction(c) ==
  /\ cpc[c] = "clear"
  /\ val' = [val EXCEPT ![c] = KeysWithCachePrefix]
  /\ store' = [k \in StoreKeys |->
                IF k \in KeysWithCachePrefix THEN Absent ELSE store[k]]
  /\ m3uCache' = Null
  /\ stale' = [d \in Clients |-> IF InHand(d) # EmptyList THEN InHand(d) ELSE stale[d]]
  /\ cpc' = [cpc EXCEPT ![c] = "done"]
  /\ ret' = [ret EXCEPT ![c] = [status |-> "ok", data |-> {}]]
  /\ UNCHANGED <<type, localStorage, now, calls, stack, guide, acquired,
                 seen, producerCalls>>
  /\ UNCHANGED <<limiterVars, hookVars, pureVars>>

\* Time passes.
Tick ==
  /\ now < MaxTime
  /\ now' = now + 1
  /\ UNCHANGED <<type, localStorage, stale, store, m3uCache, calls, cpc, stack, 
                 guide, acquired, seen, val, ret, producerCalls>>
  /\ UNCHANGED <<limiterVars, hookVars, pureVars>>

(***************************************************************************)
(* Part 3.  forceEPGDownload and the actions of the useIPTV hook.  Each    *)
(* hook action sets isLoading and clears error, awaits one call of the     *)
(* service, and ends in its catch and finally blocks.  A boolean result is *)
(* written as the status "true" or "false".                                *)
(***************************************************************************)

\* setIsLoading(true); setError(null)
HookBegin(c, name) ==
  /\ isLoading' = TRUE
  /\ error' = "null"
  /\ op' = [op EXCEPT ![c] = name]

\* fetchLiveStreams(categoryId): up to `await service.getLiveStreams`.
FetchLiveStreams(c, sel) ==
  /\ Begin(c, <<Key("live", sel)>>)
  /\ Read(c, Key("live", sel))
  /\ ret' = [ret EXCEPT ![c] = NoReturn]
  /\ HookBegin(c, "fetchLiveStreams")
  /\ UNCHANGED <<type, localStorage, stale, store, m3uCache, now, val, producerCalls>>
  /\ UNCHANGED <<limiterVars, pureVars>>

\* fetchEPG(channelId): up to `await service.getEPG`.
FetchEPG(c, sel) ==
  /\ Begin(c, <<Key("epg", sel)>>)
  /\ Read(c, Key("epg", sel))
  /\ ret' = [ret EXCEPT ![c] = NoReturn]
  /\ HookBegin(c, "fetchEPG")
  /\ UNCHANGED <<type, localStorage, stale, store, m3uCache, now, val, producerCalls>>
  /\ UNCHANGED <<limiterVars, pureVars>>

\* key.startsWith('epg:')
HasEPGPrefix(key) == key[1] = "epg"

\* A forceEPGDownload that deletes the guide entries of db.settings.
HookForceEPGDownloadClearsStore(c) ==
  /\ Begin(c, <<>>)
  /\ localStorage' = {key \in localStorage : ~HasEPGPrefix(key)}
  /\ store' = [k \in StoreKeys |->
                IF k \in CacheKeys /\ Kind(k) = "epg" THEN Absent ELSE store[k]]
  /\ cpc' = [cpc EXCEPT ![c] = "force"]
  /\ ret' = [ret EXCEPT ![c] = NoReturn]
  /\ HookBegin(c, "forceEPGDownload")
  /\ UNCHANGED <<type, stale, m3uCache, now, seen, val, producerCalls>>
  /\ UNCHANGED <<limiterVars, pureVars>>

\* The hook's forceEPGDownload: up to the download service.forceEPGDownload
\* awaits.  The service clears 'epg:' keys of localStorage, not db.settings.
HookForceEPGDownload(c) ==
  /\ Begin(c, <<>>)
  /\ localStorage' = {key \in localStorage : ~HasEPGPrefix(key)}
  /\ cpc' = [cpc EXCEPT ![c] = "force"]
  /\ ret' = [ret EXCEPT ![c] = NoReturn]
  /\ HookBegin(c, "forceEPGDownload")
  /\ UNCHANGED <<type, stale, store, m3uCache, now, seen, val, producerCalls>>
  /\ UNCHANGED <<limiterVars, pureVars>>

\* service.forceEPGDownload once fetchEPGXMLDirect ended with download d:
\* false without a document, else parseEPGXML is called and true returned.
ForceEPGDownload(c, d) ==
  /\ cpc[c] = "force"
  /\ LET xmlContent == FetchEPGXMLDirect(d)
         epgData == IF xmlContent = "null" THEN {} ELSE ParseEPGXML(xmlContent)
     IN /\ acquired' = [acquired EXCEPT ![c] =
               IF xmlContent = "null" THEN "downloadFailed"
               ELSE IF xmlContent \in {"parsererror", "throws"} THEN "parseFailed"
               ELSE "parsed"]
        /\ guide' = [guide EXCEPT ![c] = FilteredData(epgData)]
        /\ ret' = [ret EXCEPT ![c] =
               [status |-> IF xmlContent = "null" THEN "false" ELSE "true",
                data |-> {}]]
  /\ cpc' = [cpc EXCEPT ![c] = "done"]
  /\ UNCHANGED <<type, localStorage, stale, store, m3uCache, now, calls, stack, seen, val,
                 producerCalls>>
  /\ UNCHANGED <<limiterVars, hookVars, pureVars>>

\* The hook's clearCache: up to `await service.clearCache()`.
HookClearCache(c) ==
  /\ Begin(c, <<>>)
  /\ cpc' = [cpc EXCEPT ![c] = "clear"]
  /\ ret' = [ret EXCEPT ![c] = NoReturn]
  /\ HookBegin(c, "clearCache")
  /\ UNCHANGED <<type, localStorage, stale, store, m3uCache, now, seen, val, producerCalls>>
  /\ UNCHANGED <<limiterVars, pureVars>>

\* clearCache goes on with fetchInitialData(service).  Of the three
\* getCategories calls of its Promise.all the model follows the live one.
FetchInitialData(c) ==
  /\ cpc[c] = "done"
  /\ op[c] = "clearCache"
  /\ stack' = [stack EXCEPT ![c] = <<Key("categories", "live")>>]
  /\ Read(c, Key("categories", "live"))
  /\ op' = [op EXCEPT ![c] = "getCategories"]
  /\ ret' = [ret EXCEPT ![c] = NoReturn]
  /\ val' = [val EXCEPT ![c] = {}]
  /\ UNCHANGED <<type, localStorage, stale, store, m3uCache, now, calls, guide, acquired,
                 producerCalls, isLoading, error>>
  /\ UNCHANGED <<limiterVars, pureVars>>

\* fetchInitialData with a non-empty liveCategories: getLiveStreams of the
\* first category.
FetchInitialStreams(c) ==
  /\ cpc[c] = "done"
  /\ op[c] = "getCategories"
  /\ ret[c].status = "ok" /\ ret[c].data # EmptyList
  /\ stack' = [stack EXCEPT ![c] = <<Key("live", "cat1")>>]
  /\ Read(c, Key("live", "cat1"))
  /\ op' = [op EXCEPT ![c] = "getLiveStreams"]
  /\ ret' = [ret EXCEPT ![c] = NoReturn]
  /\ UNCHANGED <<type, localStorage, stale, store, m3uCache, now, calls, guide, acquired, val,
                 producerCalls, isLoading, error>>
  /\ UNCHANGED <<limiterVars, pureVars>>

\* The awaited service call of a hook action settled: the catch block sets
\* error and returns the empty value, the finally block resets isLoading.
\* fetchInitialData catches for itself and sets error the same way.
HookSettles(c) ==
  /\ cpc[c] = "done"
  /\ \/ op[c] \in {"fetchLiveStreams", "fetchEPG", "forceEPGDownload",
                    "getLiveStreams"}
     \/ op[c] = "getCategories" /\ ~(ret[c].status = "ok" /\ ret[c].data # EmptyList)
  /\ error' = IF ret[c].status = "threw" THEN "message" ELSE error
  /\ isLoading' = FALSE
  /\ ret' = [ret EXCEPT ![c] =
               IF op[c] \in {"getCategories", "getLiveStreams"}
               THEN [status |-> "ok", data |-> {}]
               ELSE IF ret[c].status = "threw"
               THEN [status |-> IF op[c] = "forceEPGDownload" THEN "false" ELSE "ok",
                     data |-> EmptyList]
               ELSE @]
  /\ cpc' = [cpc EXCEPT ![c] = "returned"]
  /\ UNCHANGED <<type, localStorage, stale, store, m3uCache, now, calls, stack, guide, acquired,
                 seen, val, producerCalls, op>>
  /\ UNCHANGED <<limiterVars, pureVars>>

\* The actions of the hook and the steps of the service calls they await.
HookNext ==
  \E c \in Clients :
    \/ FetchLiveStreams(c, "cat1")
    \/ \E sel \in EPGSelectors : FetchEPG(c, sel)
    \/ HookForceEPGDownload(c)
    \/ HookClearCache(c)
    \/ Check(c)
    \/ ProducerReturns(c)
    \/ ProducerThrows(c)
    \/ \E d \in Downloads : EPGProducer(c, d)
    \/ Put(c)
    \/ \E d \in Downloads : ForceEPGDownload(c, d)
    \/ ClearCacheTransaction(c)
    \/ FetchInitialData(c)
    \/ FetchInitialStreams(c)
    \/ HookSettles(c)

\* The catalog and playlist calls, and clearCache.
CacheNext ==
  \/ Tick
  \/ \E c \in Clients :
       \/ \E sel \in {"cat1", "cat2"} : GetLiveStreams(c, sel)
       \/ GetM3UContent(c)
       \/ ClearCache(c)
       \/ Check(c)
       \/ ProducerReturns(c)
       \/ ProducerThrows(c)
       \/ Put(c)
       \/ ClearCacheTransaction(c)

\* The guide calls, with the catalog call getEPG(channelId) makes.
EPGNext ==
  \/ Tick
  \/ \E c \in Clients :
       \/ \E sel \in EPGSelectors : GetEPG(c, sel)
       \/ Check(c)
       \/ ProducerReturns(c)
       \/ ProducerThrows(c)
       \/ \E d \in Downloads : EPGProducer(c, d)
       \/ Put(c)


(***************************************************************************)
(* Part 4.  Channel matching: normalizeChannelName, the alias dictionary   *)
(* of getKnownChannelMapping, and findMatchingChannel.  A string is the    *)
(* sequence of its characters.                                             *)
(***************************************************************************)

UpperCase == <<"A", "B", "C", "D", "E", "F", "G", "H", "I", "J", "K", "L", "M", "N", "O", "P", "Q", "R", "S", "T", "U", "V", "W", "X", "Y", "Z">>
LowerCase == <<"a", "b", "c", "d", "e", "f", "g", "h", "i", "j", "k", "l", "m", "n", "o", "p", "q", "r", "s", "t", "u", "v", "w", "x", "y", "z">>
Digits == {"0", "1", "2", "3", "4", "5", "6", "7", "8", "9"}

\* The accented letters of the channel names used here, with the base
\* letter that normalize('NFD') followed by the removal of U+0300..U+036F
\* leaves.
Accented == <<"é", "ã", "É">>
BaseLetter == <<"e", "a", "E">>

Range(f) == {f[i] : i \in DOMAIN f}

\* String.prototype.toLowerCase, one character.
LowerChar(ch) ==
  IF \E i \in DOMAIN UpperCase : UpperCase[i] = ch
  THEN LowerCase[CHOOSE i \in DOMAIN UpperCase : UpperCase[i] = ch]
  ELSE IF ch = "É" THEN "é"
  ELSE ch

ToLowerCase(str) == [i \in DOMAIN str |-> LowerChar(str[i])]

\* \w of a regular expression without the u flag.
IsWordChar(ch) ==
  ch \in Range(UpperCase) \cup Range(LowerCase) \cup Digits \cup {"_"}

\* String.prototype.includes
Includes(str, sub) ==
  \E i \in 1..(Len(str) - Len(sub) + 1) : SubSeq(str, i, i + Len(sub) - 1) = sub

\* replace(/\[.*?\]/g, '') and replace(/\(.*?\)/g, ''): every stretch from
\* an opening character to the nearest closing one is removed.
RECURSIVE RemoveDelimited(_, _, _)
RemoveDelimited(str, open, close) ==
  IF str = <<>> THEN <<>>
  ELSE IF Head(str) = open /\ \E j \in 2..Len(str) : str[j] = close
  THEN LET j == CHOOSE k \in 2..Len(str) :
                  str[k] = close /\ \A m \in 2..(k - 1) : str[m] # close
       IN RemoveDelimited(SubSeq(str, j + 1, Len(str)), open, close)
  ELSE <<Head(str)>> \o RemoveDelimited(Tail(str), open, close)

\* (hd|sd|fhd|uhd|4k|8k|fullhd|alt|[0-9]+p)
IsQualityWord(w) ==
  \/ w \in {<<"h", "d">>, <<"s", "d">>, <<"f", "h", "d">>, <<"u", "h", "d">>, <<"4", "k">>, <<"8", "k">>, <<"f", "u", "l", "l", "h", "d">>, <<"a", "l", "t">>}
  \/ /\ Len(w) >= 2
     /\ w[Len(w)] = "p"
     /\ \A i \in 1..(Len(w) - 1) : w[i] \in Digits

\* The length of the longest prefix of str made of word characters.
RECURSIVE WordLen(_)
WordLen(str) ==
  IF str = <<>> \/ ~IsWordChar(Head(str)) THEN 0 ELSE 1 + WordLen(Tail(str))

\* replace(/\b(...)\b/g, ''): between two \b lies a whole run of word
\* characters, so a run is removed exactly when it is a quality word.
RECURSIVE RemoveQuality(_)
RemoveQuality(str) ==
  IF str = <<>> THEN <<>>
  ELSE IF ~IsWordChar(Head(str))
  THEN <<Head(str)>> \o RemoveQuality(Tail(str))
  ELSE LET n == WordLen(str)
           w == SubSeq(str, 1, n)
           rest == RemoveQuality(SubSeq(str, n + 1, Len(str)))
       IN IF IsQualityWord(w) THEN rest ELSE w \o rest

\* replace(/\+/g, 'mais') and replace(/&/g, 'e')
RECURSIVE ReplaceSpecial(_)
ReplaceSpecial(str) ==
  IF str = <<>> THEN <<>>
  ELSE (IF Head(str) = "+" THEN <<"m", "a", "i", "s">>
        ELSE IF Head(str) = "&" THEN <<"e">>
        ELSE <<Head(str)>>) \o ReplaceSpecial(Tail(str))

\* normalize('NFD').replace(/[\u0300-\u036f]/g, ''), one character.
Unaccent(ch) ==
  IF \E i \in DOMAIN Accented : Accented[i] = ch
  THEN BaseLetter[CHOOSE i \in DOMAIN Accented : Accented[i] = ch]
  ELSE ch

\* replace(/[^a-z0-9]/g, ' '), one character.
Alnum(ch) == IF ch \in Range(LowerCase) \cup Digits THEN ch ELSE " "

\* replace(/\s+/g, ' ').trim()
RECURSIVE Squeeze(_)
Squeeze(str) ==
  IF str = <<>> THEN <<>>
  ELSE IF Head(str) = " "
  THEN IF Len(str) = 1 \/ str[2] = " " THEN Squeeze(Tail(str))
       ELSE <<" ">> \o Squeeze(Tail(str))
  ELSE <<Head(str)>> \o Squeeze(Tail(str))

Trim(str) == IF str # <<>> /\ Head(str) = " " THEN Tail(str) ELSE str

normalizeChannelName(name) ==
  LET lowered == ToLowerCase(name)
      unbracketed == RemoveDelimited(RemoveDelimited(lowered, "[", "]"), "(", ")")
      plain == ReplaceSpecial(RemoveQuality(unbracketed))
      ascii == [i \in DOMAIN plain |-> Alnum(Unaccent(plain[i]))]
  IN Trim(Squeeze(ascii))

\* const knownChannels, in the order of its entries: <<key, EPG id>>.
knownChannels ==
  <<
    <<<<"g", "n", "t">>, <<"G", "N", "T">>>>,
    <<<<"g", "l", "o", "b", "o">>, <<"G", "l", "o", "b", "o">>>>,
    <<<<"s", "b", "t">>, <<"S", "B", "T">>>>,
    <<<<"r", "e", "c", "o", "r", "d">>, <<"R", "e", "c", "o", "r", "d">>>>,
    <<<<"b", "a", "n", "d">>, <<"B", "a", "n", "d">>>>,
    <<<<"r", "e", "d", "e", "t", "v">>, <<"R", "e", "d", "e", "T", "V">>>>,
    <<<<"s", "p", "o", "r", "t", "v">>, <<"S", "p", "o", "r", "T", "V">>>>,
    <<<<"e", "s", "p", "n">>, <<"E", "S", "P", "N">>>>,
    <<<<"f", "o", "x", " ", "s", "p", "o", "r", "t", "s">>, <<"F", "o", "x", " ", "S", "p", "o", "r", "t", "s">>>>,
    <<<<"d", "i", "s", "c", "o", "v", "e", "r", "y">>, <<"D", "i", "s", "c", "o", "v", "e", "r", "y", " ", "C", "h", "a", "n", "n", "e", "l">>>>,
    <<<<"h", "i", "s", "t", "o", "r", "y">>, <<"H", "i", "s", "t", "o", "r", "y", " ", "C", "h", "a", "n", "n", "e", "l">>>>,
    <<<<"n", "a", "t", "i", "o", "n", "a", "l", " ", "g", "e", "o", "g", "r", "a", "p", "h", "i", "c">>, <<"N", "a", "t", "i", "o", "n", "a", "l", " ", "G", "e", "o", "g", "r", "a", "p", "h", "i", "c">>>>,
    <<<<"w", "a", "r", "n", "e", "r">>, <<"W", "a", "r", "n", "e", "r">>>>,
    <<<<"u", "n", "i", "v", "e", "r", "s", "a", "l">>, <<"U", "n", "i", "v", "e", "r", "s", "a", "l">>>>,
    <<<<"s", "o", "n", "y">>, <<"S", "o", "n", "y">>>>,
    <<<<"f", "x">>, <<"F", "X">>>>,
    <<<<"h", "b", "o">>, <<"H", "B", "O">>>>,
    <<<<"t", "e", "l", "e", "c", "i", "n", "e">>, <<"T", "e", "l", "e", "c", "i", "n", "e">>>>,
    <<<<"m", "e", "g", "a", "p", "i", "x">>, <<"M", "e", "g", "a", "p", "i", "x">>>>,
    <<<<"s", "p", "a", "c", "e">>, <<"S", "p", "a", "c", "e">>>>,
    <<<<"t", "n", "t">>, <<"T", "N", "T">>>>,
    <<<<"c", "a", "r", "t", "o", "o", "n">>, <<"C", "a", "r", "t", "o", "o", "n", " ", "N", "e", "t", "w", "o", "r", "k">>>>,
    <<<<"d", "i", "s", "n", "e", "y">>, <<"D", "i", "s", "n", "e", "y", " ", "C", "h", "a", "n", "n", "e", "l">>>>,
    <<<<"n", "i", "c", "k">>, <<"N", "i", "c", "k", "e", "l", "o", "d", "e", "o", "n">>>>,
    <<<<"m", "t", "v">>, <<"M", "T", "V">>>>,
    <<<<"m", "u", "l", "t", "i", "s", "h", "o", "w">>, <<"M", "u", "l", "t", "i", "s", "h", "o", "w">>>>,
    <<<<"b", "i", "s">>, <<"B", "I", "S">>>>,
    <<<<"v", "i", "v", "a">>, <<"V", "i", "v", "a">>>>,
    <<<<"c", "o", "m", "e", "d", "y", " ", "c", "e", "n", "t", "r", "a", "l">>, <<"C", "o", "m", "e", "d", "y", " ", "C", "e", "n", "t", "r", "a", "l">>>>,
    <<<<"a", "e">>, <<"A", "E", ".", "b", "r">>>>,
    <<<<"a", " ", "e">>, <<"A", "E", ".", "b", "r">>>>,
    <<<<"a", "&", "e">>, <<"A", "E", ".", "b", "r">>>>,
    <<<<"a", "m", "c">>, <<"A", "M", "C">>>>,
    <<<<"a", "n", "i", "m", "a", "l", " ", "p", "l", "a", "n", "e", "t">>, <<"A", "n", "i", "m", "a", "l", " ", "P", "l", "a", "n", "e", "t">>>>,
    <<<<"a", "x", "n">>, <<"A", "X", "N">>>>,
    <<<<"c", "i", "n", "e", "m", "a", "x">>, <<"C", "i", "n", "e", "m", "a", "x">>>>,
    <<<<"c", "o", "m", "b", "a", "t", "e">>, <<"C", "o", "m", "b", "a", "t", "e">>>>,
    <<<<"d", "i", "s", "c", "o", "v", "e", "r", "y", " ", "k", "i", "d", "s">>, <<"D", "i", "s", "c", "o", "v", "e", "r", "y", " ", "K", "i", "d", "s">>>>,
    <<<<"d", "i", "s", "c", "o", "v", "e", "r", "y", " ", "t", "u", "r", "b", "o">>, <<"D", "i", "s", "c", "o", "v", "e", "r", "y", " ", "T", "u", "r", "b", "o">>>>,
    <<<<"e", " ", "e", "n", "t", "e", "r", "t", "a", "i", "n", "m", "e", "n", "t">>, <<"E", "!">>>>,
    <<<<"e", "s", "p", "n", " ", "b", "r", "a", "s", "i", "l">>, <<"E", "S", "P", "N", " ", "B", "r", "a", "s", "i", "l">>>>,
    <<<<"f", "o", "o", "d", " ", "n", "e", "t", "w", "o", "r", "k">>, <<"F", "o", "o", "d", " ", "N", "e", "t", "w", "o", "r", "k">>>>,
    <<<<"f", "o", "x">>, <<"F", "o", "x">>>>,
    <<<<"f", "o", "x", " ", "l", "i", "f", "e">>, <<"F", "o", "x", " ", "L", "i", "f", "e">>>>,
    <<<<"f", "o", "x", " ", "p", "r", "e", "m", "i", "u", "m">>, <<"F", "o", "x", " ", "P", "r", "e", "m", "i", "u", "m">>>>,
    <<<<"f", "u", "t", "u", "r", "a">>, <<"F", "u", "t", "u", "r", "a">>>>,
    <<<<"g", "l", "o", "b", "o", " ", "n", "e", "w", "s">>, <<"G", "l", "o", "b", "o", "N", "e", "w", "s">>>>,
    <<<<"g", "l", "o", "o", "b">>, <<"G", "l", "o", "o", "b">>>>,
    <<<<"h", "2">>, <<"H", "2">>>>,
    <<<<"h", "g", "t", "v">>, <<"H", "G", "T", "V">>>>,
    <<<<"l", "i", "f", "e", "t", "i", "m", "e">>, <<"L", "i", "f", "e", "t", "i", "m", "e">>>>,
    <<<<"m", "a", "i", "s", " ", "g", "l", "o", "b", "o", "s", "a", "t">>, <<"M", "a", "i", "s", " ", "G", "l", "o", "b", "o", "s", "a", "t">>>>,
    <<<<"m", "a", "x">>, <<"M", "a", "x">>>>,
    <<<<"n", "a", "t", " ", "g", "e", "o", " ", "w", "i", "l", "d">>, <<"N", "a", "t", " ", "G", "e", "o", " ", "W", "i", "l", "d">>>>,
    <<<<"n", "i", "c", "k", " ", "j", "r">>, <<"N", "i", "c", "k", " ", "J", "r", ".">>>>,
    <<<<"o", "f", "f">>, <<"O", "F", "F">>>>,
    <<<<"p", "a", "r", "a", "m", "o", "u", "n", "t">>, <<"P", "a", "r", "a", "m", "o", "u", "n", "t">>>>,
    <<<<"p", "r", "e", "m", "i", "e", "r", "e">>, <<"P", "r", "e", "m", "i", "e", "r", "e">>>>,
    <<<<"p", "r", "i", "m", "e", " ", "b", "o", "x", " ", "b", "r", "a", "z", "i", "l">>, <<"P", "r", "i", "m", "e", " ", "B", "o", "x", " ", "B", "r", "a", "z", "i", "l">>>>,
    <<<<"r", "e", "c", "o", "r", "d", " ", "n", "e", "w", "s">>, <<"R", "e", "c", "o", "r", "d", " ", "N", "e", "w", "s">>>>,
    <<<<"r", "e", "d", "e", " ", "v", "i", "d", "a">>, <<"R", "e", "d", "e", " ", "V", "i", "d", "a">>>>,
    <<<<"s", "y", "f", "y">>, <<"S", "y", "f", "y">>>>,
    <<<<"t", "c", "m">>, <<"T", "C", "M">>>>,
    <<<<"t", "l", "c">>, <<"T", "L", "C">>>>,
    <<<<"t", "o", "o", "n", "c", "a", "s", "t">>, <<"T", "o", "o", "n", "c", "a", "s", "t">>>>,
    <<<<"t", "r", "a", "v", "e", "l", " ", "b", "o", "x", " ", "b", "r", "a", "z", "i", "l">>, <<"T", "r", "a", "v", "e", "l", " ", "B", "o", "x", " ", "B", "r", "a", "z", "i", "l">>>>,
    <<<<"t", "v", " ", "b", "r", "a", "s", "i", "l">>, <<"T", "V", " ", "B", "r", "a", "s", "i", "l">>>>,
    <<<<"t", "v", " ", "g", "a", "z", "e", "t", "a">>, <<"T", "V", " ", "G", "a", "z", "e", "t", "a">>>>,
    <<<<"w", "o", "o", "h", "o", "o">>, <<"W", "o", "o", "H", "o", "o">>>>,
    <<<<"z", "o", "o", "m", "o", "o">>, <<"Z", "o", "o", "M", "o", "o">>>>,
    <<<<"a", "g", "r", "o", "m", "a", "i", "s">>, <<"A", "g", "r", "o", "+">>>>
  >>

\* No string: null and undefined.
NoString == <<"<null>">>

\* The dictionary entry whose key is the normalized name, else the first
\* entry whose key contains it or is contained in it.
KnownChannelLookup(normalizedName) ==
  LET exact == {i \in DOMAIN knownChannels : knownChannels[i][1] = normalizedName}
      partial == {i \in DOMAIN knownChannels :
                    \/ Includes(normalizedName, knownChannels[i][1])
                    \/ Includes(knownChannels[i][1], normalizedName)}
      First(S) == CHOOSE i \in S : \A j \in S : i <= j
  IN IF exact # {} THEN knownChannels[First(exact)][2]
     ELSE IF partial # {} THEN knownChannels[First(partial)][2]
     ELSE NoString

\* A dictionary lookup by the exact normalized name only.
getKnownChannelMappingExact(channelName) ==
  LET normalizedName == normalizeChannelName(channelName)
      exact == {i \in DOMAIN knownChannels : knownChannels[i][1] = normalizedName}
  IN IF exact # {} THEN knownChannels[CHOOSE i \in exact : TRUE][2]
     ELSE NoString

\* getKnownChannelMapping
getKnownChannelMapping(channelName) ==
  KnownChannelLookup(normalizeChannelName(channelName))

\* undefined, where a channel is expected.
NoChannel == [id |-> NoString, name |-> NoString]

\* Array.prototype.find: the first element of channels that satisfies P.
Find(channels, P(_)) ==
  IF \E i \in DOMAIN channels : P(channels[i])
  THEN channels[CHOOSE i \in DOMAIN channels :
                  P(channels[i]) /\ \A j \in 1..(i - 1) : ~P(channels[j])]
  ELSE NoChannel

\* replace(/\s+/g, '-') of a normalized name.
Dashed(str) == [i \in DOMAIN str |-> IF str[i] = " " THEN "-" ELSE str[i]]

\* const idVariations
idVariations(channelName) ==
  << channelName,
     <<"b", "r", "#">> \o ToLowerCase(channelName),
     <<"b", "r", "#">> \o ToLowerCase(channelName) \o <<"-", "h", "d">>,
     channelName \o <<".", "b", "r">>,
     Dashed(normalizeChannelName(channelName)) \o <<".", "b", "r">>,
     <<"b", "r", "#">> \o Dashed(normalizeChannelName(channelName)) >>

\* normalizedName.split(/\s+/): the words of a normalized name.
RECURSIVE Words(_)
Words(str) ==
  IF str = <<>> THEN <<>>
  ELSE IF Head(str) = " " THEN Words(Tail(str))
  ELSE LET n == CHOOSE k \in 1..Len(str) :
                  /\ \A i \in 1..k : str[i] # " "
                  /\ k = Len(str) \/ str[k + 1] = " "
       IN <<SubSeq(str, 1, n)>> \o Words(SubSeq(str, n + 1, Len(str)))

\* The knownChannel and knownChannelByName lookups of findMatchingChannel.
KnownChannelMatch(channelName, channels) ==
  LET knownChannelId == getKnownChannelMapping(channelName)
      ById(c) == c.id = knownChannelId
      ByName(c) == c.name = knownChannelId
  IN IF knownChannelId = NoString THEN NoChannel
     ELSE IF \E i \in DOMAIN channels : ById(channels[i])
     THEN Find(channels, ById)
     ELSE Find(channels, ByName)

\* exactIdMatch
ExactIdMatch(channelName, channels) ==
  LET P(c) == c.id = channelName IN Find(channels, P)

\* The first of the variations that some channel id equals, with or
\* without regard to case.
RECURSIVE FirstVariationMatch(_, _)
FirstVariationMatch(variations, channels) ==
  IF variations = <<>> THEN NoChannel
  ELSE LET P(c) == \/ c.id = Head(variations)
                   \/ ToLowerCase(c.id) = ToLowerCase(Head(variations))
       IN IF \E i \in DOMAIN channels : P(channels[i]) THEN Find(channels, P)
          ELSE FirstVariationMatch(Tail(variations), channels)

\* idVariationMatch
IdVariationMatch(channelName, channels) ==
  FirstVariationMatch(idVariations(channelName), channels)

\* exactNameMatch
ExactNameMatch(channelName, channels) ==
  LET P(c) == c.name = channelName IN Find(channels, P)

\* normalizedMatch
NormalizedNameMatch(normalizedName, channels) ==
  LET P(c) == normalizeChannelName(c.name) = normalizedName
  IN Find(channels, P)

NormalizedMatch(channelName, channels) ==
  NormalizedNameMatch(normalizeChannelName(channelName), channels)

\* containedInMatch
ContainedInNameMatch(normalizedName, channels) ==
  LET P(c) == \/ Includes(normalizeChannelName(c.name), normalizedName)
              \/ Includes(normalizedName, normalizeChannelName(c.name))
  IN Find(channels, P)

ContainedInMatch(channelName, channels) ==
  ContainedInNameMatch(normalizeChannelName(channelName), channels)

\* keywordMatches[0] after the sort by score: Array.prototype.sort is
\* stable, so the first channel of the list with the highest score.
KeywordsMatch(words, channels) ==
  LET keywords == {i \in DOMAIN words : Len(words[i]) > 3}
      Score(c) == Cardinality({i \in keywords :
                                 Includes(normalizeChannelName(c.name), words[i])})
      P(c) == /\ Score(c) > 0
              /\ \A j \in DOMAIN channels : Score(channels[j]) <= Score(c)
  IN Find(channels, P)

KeywordMatch(channelName, channels) ==
  KeywordsMatch(Words(normalizeChannelName(channelName)), channels)

\* The strategies with substring containment tried first.
StrategiesContainmentFirst(channelName, channels) ==
  << ContainedInMatch(channelName, channels),
     KnownChannelMatch(channelName, channels),
     ExactIdMatch(channelName, channels),
     IdVariationMatch(channelName, channels),
     ExactNameMatch(channelName, channels),
     NormalizedMatch(channelName, channels),
     KeywordMatch(channelName, channels) >>

\* The strategies of findMatchingChannel in the order the code tries them.
Strategies(channelName, channels) ==
  << KnownChannelMatch(channelName, channels),
     ExactIdMatch(channelName, channels),
     IdVariationMatch(channelName, channels),
     ExactNameMatch(channelName, channels),
     NormalizedMatch(channelName, channels),
     ContainedInMatch(channelName, channels),
     KeywordMatch(channelName, channels) >>

\* The result of the first strategy, in order, that found a channel.
FirstFound(found) ==
  LET hits == {k \in DOMAIN found : found[k] # NoChannel}
  IN IF hits = {} THEN NoChannel
     ELSE found[CHOOSE k \in hits : \A m \in hits : k <= m]

\* findMatchingChannel: undefined for an empty name or an empty list, else
\* what the first strategy that finds a channel returns.
findMatchingChannel(channelName, channels) ==
  IF channelName = <<>> \/ channels = <<>> THEN NoChannel
  ELSE FirstFound(Strategies(channelName, channels))

\* The longest channel list.
MaxChannels == 2

\* Guide channels to match against: id and display name.
ChannelPool ==
  {
    [id |-> <<"A", "E", ".", "b", "r">>, name |-> <<"A", "&", "E", " ", "H", "D">>],
    [id |-> <<"x", "1">>, name |-> <<"A", "&", "E">>],
    [id |-> <<"E", "S", "P", "N">>, name |-> <<"E", "S", "P", "N", " ", "B", "r", "a", "s", "i", "l">>],
    [id |-> <<"1", "3">>, name |-> <<"D", "i", "s", "c", "o", "v", "e", "r", "y", " ", "K", "i", "d", "s">>],
    [id |-> <<"z", "z">>, name |-> <<"x", "1", " ", "t", "v">>]
  }

\* The lists of distinct channels.
ChannelLists ==
  UNION {{l \in [1..n -> ChannelPool] : \A i, j \in 1..n : l[i] = l[j] => i = j} :
           n \in 0..MaxChannels}

Spacing == {<<>>, <<" ">>}

\* The name A&E in every capitalization, with and without spaces around
\* its characters, and with a quality suffix.
AEVariants ==
  {a \o s1 \o <<"&">> \o s2 \o e \o tail :
     a \in {<<"A">>, <<"a">>}, s1 \in Spacing, s2 \in Spacing,
     e \in {<<"E">>, <<"e">>},
     tail \in {<<>>, <<" ">>, <<" ", "H", "D">>}}

\* Other names a stream may carry, the empty name among them.
OtherNames ==
  {<<>>, <<"E", "S", "P", "N">>, <<"e", "s", "p", "n">>, <<"x", "1">>, <<"K", "i", "d", "s", " ", "D", "i", "s", "c", "o", "v", "e", "r", "y">>, <<"C", "a", "n", "a", "l", " ", "(", "S", "D", ")">>, <<"H", "D">>, <<"G", "l", "o", "b", "o">>, <<"A", "+", "E">>}

MatchInputs ==
  [channelName : AEVariants \cup OtherNames, channels : ChannelLists]

\* findMatchingChannel(channelName, channels) is called.
FindMatchingChannel ==
  /\ output.calls = 0
  /\ output' = [calls |-> output.calls + 1,
                value |-> findMatchingChannel(input.channelName, input.channels)]
  /\ UNCHANGED <<input, limiterVars, cacheVars, hookVars>>

MatchNext == FindMatchingChannel

(***************************************************************************)
(* Part 5.  adjustEPGDate of the channel list: the XMLTV stamp             *)
(* 'YYYYMMDDHHMMSS +HHMM' rewritten as ISO 8601.                           *)
(***************************************************************************)

\* The most whitespace between the stamp and its offset.
MaxSpaces == 2

IsDigits(str) == \A i \in DOMAIN str : str[i] \in Digits

\* Characters that \s matches, as far as the inputs here use them.
Whitespace == {" ", "\t"}

\* epgDateRegex.test(dateStr):
\* /^(\d{4})(\d{2})(\d{2})(\d{2})(\d{2})(\d{2})\s+([+-]\d{4})$/
MatchesEPGDate(dateStr) ==
  LET n == Len(dateStr)
  IN /\ n >= 20
     /\ IsDigits(SubSeq(dateStr, 1, 14))
     /\ \A i \in 15..(n - 5) : dateStr[i] \in Whitespace
     /\ dateStr[n - 4] \in {"+", "-"}
     /\ IsDigits(SubSeq(dateStr, n - 3, n))

\* An adjustEPGDate that leaves the offset as it came.
adjustEPGDateOffsetKept(dateStr) ==
  IF MatchesEPGDate(dateStr)
  THEN LET n == Len(dateStr)
       IN SubSeq(dateStr, 1, 4) \o <<"-">> \o SubSeq(dateStr, 5, 6) \o <<"-">>
            \o SubSeq(dateStr, 7, 8) \o <<"T">> \o SubSeq(dateStr, 9, 10) \o <<":">>
            \o SubSeq(dateStr, 11, 12) \o <<":">> \o SubSeq(dateStr, 13, 14)
            \o SubSeq(dateStr, n - 4, n)
  ELSE dateStr

\* adjustEPGDate
adjustEPGDate(dateStr) ==
  IF MatchesEPGDate(dateStr)
  THEN LET n == Len(dateStr)
           timezone == SubSeq(dateStr, n - 4, n)
           timezoneHours == SubSeq(timezone, 1, 3)
           timezoneMinutes == SubSeq(timezone, 4, 5)
       IN SubSeq(dateStr, 1, 4) \o <<"-">> \o SubSeq(dateStr, 5, 6) \o <<"-">>
            \o SubSeq(dateStr, 7, 8) \o <<"T">> \o SubSeq(dateStr, 9, 10) \o <<":">>
            \o SubSeq(dateStr, 11, 12) \o <<":">> \o SubSeq(dateStr, 13, 14)
            \o timezoneHours \o <<":">> \o timezoneMinutes
  ELSE dateStr

\* The fields of a stamp, and the whitespace before its offset.
StampParts ==
  [year : {<<"2", "0", "2", "4">>, <<"1", "9", "9", "9">>}, month : {<<"0", "1">>, <<"1", "2">>}, day : {<<"0", "5">>, <<"3", "1">>},
   hour : {<<"0", "0">>, <<"2", "3">>}, minute : {<<"0", "7">>, <<"5", "9">>}, second : {<<"0", "0">>, <<"3", "0">>},
   space : UNION {[1..n -> Whitespace] : n \in 1..MaxSpaces},
   sign : {"+", "-"}, offsetHours : {<<"0", "0">>, <<"0", "5">>}, offsetMinutes : {<<"0", "0">>, <<"3", "0">>}]

\* YYYYMMDDHHMMSS, whitespace, signed HHMM.
RawStamp(p) ==
  p.year \o p.month \o p.day \o p.hour \o p.minute \o p.second \o p.space
    \o <<p.sign>> \o p.offsetHours \o p.offsetMinutes

\* Strings that are no raw stamp: normalized ones among them.
OtherDates ==
  {<<>>,
   <<"2", "0", "2", "4", "0", "1", "0", "5", "1", "2", "0", "0", "0", "0", "+", "0", "0", "0", "0">>,
   <<"2", "0", "2", "4", "0", "1", "0", "5", "1", "2", "0", "0", "0", " ", "+", "0", "0", "0", "0">>,
   <<"2", "0", "2", "4", "0", "1", "0", "5", "1", "2", "0", "0", "0", "0", " ", "0", "0", "0", "0">>,
   <<"2", "0", "2", "4", "0", "1", "0", "5", "1", "2", "0", "0", "0", "0", " ", "+", "0", "0", "0">>,
   <<"2", "0", "2", "4", "0", "1", "0", "5", "1", "2", "0", "0", "0", "0", " ", "+", "0", "0", "0", "0", "Z">>,
   <<"2", "0", "2", "4", "-", "0", "1", "-", "0", "5", "T", "1", "2", ":", "0", "0", ":", "0", "0", "+", "0", "0", ":", "0", "0">>,
   <<"2", "0", "2", "4", "-", "0", "1", "-", "0", "5", "T", "1", "2", ":", "0", "0", ":", "0", "0", "-", "0", "3", ":", "0", "0">>,
   <<"2", "0", "2", "4", "0", "1", "0", "5", "1", "2", "0", "0", "0", "a", " ", "+", "0", "0", "0", "0">>,
   <<"x", "2", "0", "2", "4", "0", "1", "0", "5", "1", "2", "0", "0", "0", "0", " ", "+", "0", "0", "0", "0">>,
   <<"2", "0", "2", "4", "0", "1", "0", "5", "1", "2", "0", "0", "0", "0", " ", "+", "0", "0", ":", "0", "0">>}

NoParts == [none |-> TRUE]

DateInputs ==
  {[dateStr |-> RawStamp(p), parts |-> p] : p \in StampParts}
    \cup {[dateStr |-> d, parts |-> NoParts] : d \in OtherDates}

\* adjustEPGDate is applied to the string, then to its own result.
AdjustEPGDate ==
  /\ output.calls = 0
  /\ output' = [calls |-> 1, value |-> adjustEPGDate(input.dateStr)]
  /\ UNCHANGED <<input, limiterVars, cacheVars, hookVars>>

AdjustEPGDateAgain ==
  /\ output.calls = 1
  /\ output' = [calls |-> 2, value |-> adjustEPGDate(output.value)]
  /\ UNCHANGED <<input, limiterVars, cacheVars, hookVars>>

DateNext == AdjustEPGDate \/ AdjustEPGDateAgain

(***************************************************************************)
(* Part 6.  M3UService: parseM3U and generateM3U.  A document is the       *)
(* sequence of its characters.                                             *)
(***************************************************************************)

\* The most entries of a document.
MaxItems == 2

\* M3U_PATTERNS.HEADER and the prefix of M3U_PATTERNS.INFO
Header == <<"#", "E", "X", "T", "M", "3", "U">>
InfoPrefix == <<"#", "E", "X", "T", "I", "N", "F", ":">>

FirstOf(S) == CHOOSE i \in S : \A j \in S : i <= j
LastOf(S) == CHOOSE i \in S : \A j \in S : j <= i

\* String.prototype.trim, for the white space the documents here hold.
TrimString(str) ==
  LET kept == {i \in DOMAIN str : str[i] \notin {" ", "\t", "\r", "\n"}}
  IN IF kept = {} THEN <<>> ELSE SubSeq(str, FirstOf(kept), LastOf(kept))

\* content.split('\n')
Split(content) ==
  LET breaks == {i \in DOMAIN content : content[i] = "\n"}
      count == Cardinality(breaks)
      Break(k) ==
        IF k = 0 THEN 0
        ELSE IF k = count + 1 THEN Len(content) + 1
        ELSE CHOOSE i \in breaks : Cardinality({j \in breaks : j < i}) = k - 1
  IN [k \in 1..(count + 1) |-> SubSeq(content, Break(k - 1) + 1, Break(k) - 1)]

StartsWithAt(str, sub, i) ==
  /\ i + Len(sub) - 1 <= Len(str)
  /\ SubSeq(str, i, i + Len(sub) - 1) = sub

NoMatch == [matched |-> FALSE]

\* infoLine.match(/#EXTINF:-?\d+(.*?),(.+)/): the leftmost place where the
\* prefix, an optional minus and a run of digits stand, the attributes up
\* to the first comma that has a character after it, the name after it.
\* The lines here hold no line terminator inside.
MatchInfo(infoLine) ==
  LET DigitsEnd(s) ==
        LET p == s + Len(InfoPrefix)
            d == IF p <= Len(infoLine) /\ infoLine[p] = "-" THEN p + 1 ELSE p
            run == {e \in d..Len(infoLine) : \A j \in d..e : infoLine[j] \in Digits}
        IN IF run = {} THEN 0 ELSE LastOf(run)
      Commas(s) == {c \in (DigitsEnd(s) + 1)..(Len(infoLine) - 1) : infoLine[c] = ","}
      starts == {s \in DOMAIN infoLine :
                   /\ StartsWithAt(infoLine, InfoPrefix, s)
                   /\ DigitsEnd(s) > 0
                   /\ Commas(s) # {}}
  IN IF starts = {} THEN NoMatch
     ELSE LET s == FirstOf(starts)
              c == FirstOf(Commas(s))
          IN [matched |-> TRUE,
              attributes |-> SubSeq(infoLine, DigitsEnd(s) + 1, c - 1),
              name |-> SubSeq(infoLine, c + 1, Len(infoLine))]

\* attributes.match(/key="([^"]+)"/): the value of the leftmost key="
\* that is followed by at least one character other than a quote and then
\* a quote; NoString where the match is null.
AttributeValue(attributes, key) ==
  LET open == key \o <<"=", "\"">>
      Close(s) ==
        {q \in (s + Len(open) + 1)..Len(attributes) :
           /\ attributes[q] = "\""
           /\ \A j \in (s + Len(open))..(q - 1) : attributes[j] # "\""}
      starts == {s \in DOMAIN attributes :
                   StartsWithAt(attributes, open, s) /\ Close(s) # {}}
  IN IF starts = {} THEN NoString
     ELSE LET s == FirstOf(starts)
          IN SubSeq(attributes, s + Len(open), FirstOf(Close(s)) - 1)

GroupKey == <<"g", "r", "o", "u", "p", "-", "t", "i", "t", "l", "e">>
LogoKey == <<"t", "v", "g", "-", "l", "o", "g", "o">>
TvgIdKey == <<"t", "v", "g", "-", "i", "d">>
TvgNameKey == <<"t", "v", "g", "-", "n", "a", "m", "e">>
Uncategorized == <<"U", "n", "c", "a", "t", "e", "g", "o", "r", "i", "z", "e", "d">>

\* ITEM_TYPES
LiveTypes == {<<"l", "i", "v", "e">>, <<"t", "v">>, <<"c", "a", "n", "a", "l">>}
MovieTypes == {<<"m", "o", "v", "i", "e">>, <<"f", "i", "l", "m", "e">>, <<"v", "o", "d">>}
SeriesTypes == {<<"s", "e", "r", "i", "e", "s">>, <<"s", "e", "r", "i", "e">>, <<"s", "h", "o", "w">>}

determineType(group) ==
  LET lowerGroup == ToLowerCase(group)
  IN IF \E word \in LiveTypes : Includes(lowerGroup, word) THEN "live"
     ELSE IF \E word \in MovieTypes : Includes(lowerGroup, word) THEN "movie"
     ELSE IF \E word \in SeriesTypes : Includes(lowerGroup, word) THEN "series"
     ELSE "live"

NoItem == [none |-> TRUE]

\* parseM3ULine.  The id of an item is made of the clock and a random
\* number and is read by nothing here; it is left out.
parseM3ULine(infoLine, urlLine) ==
  LET infoMatch == MatchInfo(infoLine)
  IN IF ~infoMatch.matched THEN NoItem
     ELSE LET groupMatch == AttributeValue(infoMatch.attributes, GroupKey)
              group == IF groupMatch # NoString THEN groupMatch ELSE Uncategorized
          IN [name |-> TrimString(infoMatch.name),
              logo |-> AttributeValue(infoMatch.attributes, LogoKey),
              group |-> group,
              url |-> TrimString(urlLine),
              type |-> determineType(group),
              tvgId |-> AttributeValue(infoMatch.attributes, TvgIdKey),
              tvgName |-> AttributeValue(infoMatch.attributes, TvgNameKey)]

\* The loop of parseM3U; lines[i] here is lines[i - 1] of the code.
RECURSIVE ScanLines(_, _)
ScanLines(lines, i) ==
  IF i >= Len(lines) THEN <<>>
  ELSE LET line == TrimString(lines[i])
       IN IF StartsWithAt(line, InfoPrefix, 1)
          THEN LET item == parseM3ULine(line, lines[i + 1])
               IN (IF item = NoItem THEN <<>> ELSE <<item>>) \o ScanLines(lines, i + 2)
          ELSE ScanLines(lines, i + 1)

Threw == [threw |-> TRUE]

IsLive(item) == item.type = "live"
IsMovie(item) == item.type = "movie"
IsSeries(item) == item.type = "series"

\* parseM3U
parseM3U(content) ==
  LET lines == Split(content)
  IN IF ~Includes(lines[1], Header) THEN Threw
     ELSE LET items == ScanLines(lines, 2)
          IN [channels |-> SelectSeq(items, IsLive),
              movies |-> SelectSeq(items, IsMovie),
              series |-> SelectSeq(items, IsSeries)]

\* An attribute key="value"
Attribute(key, value) == key \o <<"=", "\"">> \o value \o <<"\"">>

\* Array.prototype.join(' ')
RECURSIVE JoinSpaced(_)
JoinSpaced(parts) ==
  IF parts = <<>> THEN <<>>
  ELSE IF Len(parts) = 1 THEN parts[1]
  ELSE parts[1] \o <<" ">> \o JoinSpaced(Tail(parts))

\* item.x ? ... : '' : undefined and the empty string are both falsy.
Truthy(value) == value # NoString /\ value # <<>>

NonEmpty(str) == str # <<>>

\* The attributes generateM3U writes for one item.
ItemAttributes(item) ==
  JoinSpaced(SelectSeq(
    <<IF Truthy(item.tvgId) THEN Attribute(TvgIdKey, item.tvgId) ELSE <<>>,
      IF Truthy(item.tvgName) THEN Attribute(TvgNameKey, item.tvgName) ELSE <<>>,
      IF Truthy(item.logo) THEN Attribute(LogoKey, item.logo) ELSE <<>>,
      Attribute(GroupKey, item.group)>>, NonEmpty))

GeneratedInfo == <<"#", "E", "X", "T", "I", "N", "F", ":", "-", "1", " ">>

\* A generateM3U that writes no group-title.
RECURSIVE generateM3UNoGroup(_)
generateM3UNoGroup(items) ==
  IF items = <<>> THEN Header \o <<"\n">>
  ELSE LET item == items[Len(items)]
       IN generateM3UNoGroup(SubSeq(items, 1, Len(items) - 1))
            \o GeneratedInfo \o <<",">> \o item.name \o <<"\n">>
            \o item.url \o <<"\n">>

\* generateM3U
RECURSIVE generateM3U(_)
generateM3U(items) ==
  IF items = <<>> THEN Header \o <<"\n">>
  ELSE LET item == items[Len(items)]
       IN generateM3U(SubSeq(items, 1, Len(items) - 1))
            \o GeneratedInfo \o ItemAttributes(item) \o <<",">> \o item.name \o <<"\n">>
            \o item.url \o <<"\n">>

\* The entries documents are written from by hand.
EntryNames == {<<"C", "N", "N">>, <<"T", "o", "p", ",", " ", "F", "i", "l", "m", " ", "2">>}
EntryGroups == {NoString, <<"F", "i", "l", "m", "e", "s">>, <<"S", "e", "r", "i", "e", "s">>, <<"T", "V", " ", "S", "h", "o", "w", "s">>}
Entries == [name : EntryNames, group : EntryGroups]

\* The address of the i-th entry of a document.
EntryUrl(i) == <<"h", "t", "t", "p", ":", "/", "/", "a", "/">> \o <<<<"1", "2", "3", "4", "5", "6", "7", "8", "9">>[i]>>

Addressed(es) ==
  [i \in DOMAIN es |-> [name |-> es[i].name, group |-> es[i].group, url |-> EntryUrl(i)]]

\* An entry written plainly, and written with a tvg-id, a duration of 0,
\* blanks around the name and carriage returns before the line feeds.
PlainEntry(e) ==
  <<"#", "E", "X", "T", "I", "N", "F", ":", "-", "1">>
    \o (IF e.group = NoString THEN <<>> ELSE <<" ">> \o Attribute(GroupKey, e.group))
    \o <<",">> \o e.name \o <<"\n">> \o e.url

RichEntry(e) ==
  <<"#", "E", "X", "T", "I", "N", "F", ":", "0">> \o <<" ">> \o Attribute(TvgIdKey, <<"i", "d", ".", "1">>)
    \o (IF e.group = NoString THEN <<>> ELSE <<" ">> \o Attribute(GroupKey, e.group))
    \o <<",", " ">> \o e.name \o <<" ", "\r", "\n">> \o e.url \o <<"\r">>

RECURSIVE Document(_, _)
Document(entries, rich) ==
  IF entries = <<>> THEN Header
  ELSE Document(SubSeq(entries, 1, Len(entries) - 1), rich)
         \o (IF rich THEN <<"\r", "\n">> \o RichEntry(entries[Len(entries)])
             ELSE <<"\n">> \o PlainEntry(entries[Len(entries)]))

EntryLists == UNION {[1..n -> Entries] : n \in 0..MaxItems}

\* Documents with and without a final line feed, and one without header.
M3UInputs ==
  {[content |-> Document(Addressed(es), rich) \o (IF final THEN <<"\n">> ELSE <<>>),
    entries |-> Addressed(es)] :
     es \in EntryLists, rich \in BOOLEAN, final \in BOOLEAN}
    \cup {[content |-> PlainEntry(Addressed(<<e>>)[1]), entries |-> <<>>] : e \in Entries}

Lists == {"channels", "movies", "series"}

\* parseM3U(doc), then generateM3U of one of the lists it returned, then
\* parseM3U of what was generated.
ParseM3U ==
  /\ output.calls = 0
  /\ output' = [calls |-> 1, value |-> parseM3U(input.content)]
  /\ UNCHANGED <<input, limiterVars, cacheVars, hookVars>>

GenerateM3U(list) ==
  /\ output.calls = 1
  /\ output.value # Threw
  /\ output' = [calls |-> 2, value |-> generateM3U(output.value[list]),
                list |-> list, parsed |-> output.value]
  /\ UNCHANGED <<input, limiterVars, cacheVars, hookVars>>

ParseM3UAgain ==
  /\ output.calls = 2
  /\ output' = [output EXCEPT !.calls = 3, !.value = parseM3U(output.value)]
  /\ UNCHANGED <<input, limiterVars, cacheVars, hookVars>>

M3UNext ==
  \E list \in Lists :
    \/ ParseM3U
    \/ GenerateM3U(list)
    \/ ParseM3UAgain

(***************************************************************************)
(* Part 7.  The current and the next programme of a channel: the channel   *)
(* list's getCurrentProgram and getNextProgram, and the guide service's    *)
(* getCurrentProgram.  Start and end are the instants new Date(...) gives  *)
(* for stamps that parse.                                                  *)
(***************************************************************************)

\* The most programmes of a channel, and the last instant.
MaxPrograms == 2
MaxInstant == 3

Instants == 0..MaxInstant

\* A programme ends after it starts.
Programmes == {p \in [startTime : Instants, endTime : Instants] : p.startTime < p.endTime}

NoProgram == [none |-> TRUE]

\* Array.prototype.find
FindProgram(programs, P(_)) ==
  LET hits == {i \in DOMAIN programs : P(programs[i])}
  IN IF hits = {} THEN NoProgram ELSE programs[FirstOf(hits)]

\* ChannelList.getCurrentProgram
getCurrentProgram(programs, clock) ==
  IF programs = <<>> THEN NoProgram
  ELSE LET isCurrentProgram(program) ==
             clock >= program.startTime /\ clock < program.endTime
       IN FindProgram(programs, isCurrentProgram)

\* [...programs].sort((a, b) => startA - startB): a stable sort.
RECURSIVE SortByStart(_)
SortByStart(programs) ==
  IF programs = <<>> THEN <<>>
  ELSE LET last == programs[Len(programs)]
           sorted == SortByStart(SubSeq(programs, 1, Len(programs) - 1))
           before == {i \in DOMAIN sorted : sorted[i].startTime <= last.startTime}
           k == IF before = {} THEN 0 ELSE LastOf(before)
       IN SubSeq(sorted, 1, k) \o <<last>> \o SubSeq(sorted, k + 1, Len(sorted))

\* ChannelList.getNextProgram
getNextProgram(programs, clock) ==
  IF programs = <<>> THEN NoProgram
  ELSE LET startsLater(program) == program.startTime > clock
       IN FindProgram(SortByStart(programs), startsLater)

\* EPGService.getCurrentProgram
serviceGetCurrentProgram(programs, clock) ==
  LET isCurrent(program) == program.startTime <= clock /\ program.endTime >= clock
  IN FindProgram(programs, isCurrent)

ProgramInputs ==
  [programs : UNION {[1..n -> Programmes] : n \in 0..MaxPrograms}, clock : Instants]

GetCurrentProgram ==
  /\ output.calls = 0
  /\ output' = [calls |-> 1, op |-> "getCurrentProgram",
                value |-> getCurrentProgram(input.programs, input.clock)]
  /\ UNCHANGED <<input, limiterVars, cacheVars, hookVars>>

GetNextProgram ==
  /\ output.calls = 0
  /\ output' = [calls |-> 1, op |-> "getNextProgram",
                value |-> getNextProgram(input.programs, input.clock)]
  /\ UNCHANGED <<input, limiterVars, cacheVars, hookVars>>

\* The guide service keeps the programmes of a channel sorted by start.
ServiceGetCurrentProgram ==
  /\ output.calls = 0
  /\ input.programs = SortByStart(input.programs)
  /\ output' = [calls |-> 1, op |-> "EPGService.getCurrentProgram",
                value |-> serviceGetCurrentProgram(input.programs, input.clock)]
  /\ UNCHANGED <<input, limiterVars, cacheVars, hookVars>>

ProgramNext ==
  \/ GetCurrentProgram
  \/ GetNextProgram
  \/ ServiceGetCurrentProgram

(***************************************************************************)
(* Part 8.  The cache keys of the catalog and guide calls, as the strings  *)
(* the template literals build.                                            *)
(***************************************************************************)

\* `${prefix}:${this.baseUrl}:${this.username}:${selector}`
ComposeKey(prefix, baseUrl, username, selector) ==
  prefix \o <<":">> \o baseUrl \o <<":">> \o username \o <<":">> \o selector

\* categoryId || 'all', channelId || 'all'
OrAll(selector) == IF Truthy(selector) THEN selector ELSE <<"a", "l", "l">>

\* The key of getLiveStreams, getVodStreams, getSeriesStreams,
\* getCategories and getEPG called with selector (NoString: no argument).
cacheKey(method, baseUrl, username, selector) ==
  IF method = "getLiveStreams" THEN ComposeKey(<<"l", "i", "v", "e">>, baseUrl, username, OrAll(selector))
  ELSE IF method = "getVodStreams" THEN ComposeKey(<<"v", "o", "d">>, baseUrl, username, OrAll(selector))
  ELSE IF method = "getSeriesStreams" THEN ComposeKey(<<"s", "e", "r", "i", "e", "s">>, baseUrl, username, OrAll(selector))
  ELSE IF method = "getCategories" THEN ComposeKey(<<"c", "a", "t", "e", "g", "o", "r", "i", "e", "s">>, baseUrl, username, selector)
  ELSE ComposeKey(<<"e", "p", "g">>, baseUrl, username, OrAll(selector))

\* Category and channel ids are whatever the server or the playlist names.
SelectorIds == {<<"1">>, <<"2">>, <<"1", "0">>, <<"a", "l", "l">>}
CategoryTypes == {<<"l", "i", "v", "e">>, <<"m", "o", "v", "i", "e">>, <<"s", "e", "r", "i", "e", "s">>}

Requests ==
  [method : {"getLiveStreams", "getVodStreams", "getSeriesStreams", "getEPG"},
   selector : SelectorIds \cup {NoString}]
    \cup [method : {"getCategories"}, selector : CategoryTypes]

\* Two requests made on one service instance.
KeyInputs ==
  [baseUrl : {<<"h", "t", "t", "p", ":", "/", "/", "a">>, <<"h", "t", "t", "p", ":", "/", "/", "a", ":", "8", "0", "8", "0">>}, username : {<<"u">>, <<"u", ":", "1">>},
   first : Requests, second : Requests]

\* Both calls compute their key.
ComputeCacheKeys ==
  /\ output.calls = 0
  /\ output' = [calls |-> 1,
                value |-> <<cacheKey(input.first.method, input.baseUrl, input.username,
                                     input.first.selector),
                            cacheKey(input.second.method, input.baseUrl, input.username,
                                     input.second.selector)>>]
  /\ UNCHANGED <<input, limiterVars, cacheVars, hookVars>>

KeyNext == ComputeCacheKeys

(***************************************************************************)
(* Part 9.  One logical fetch step by step: the transport strategies of    *)
(* an attempt of fetchWithRetry and fetchWithProxy, the backoff between    *)
(* attempts, and the guide acquisition of fetchEPGXMLDirect and            *)
(* fetchEPGXML.  output.trace keeps the requests sent and the backoff      *)
(* sleeps taken, in order.                                                 *)
(***************************************************************************)

\* DEFAULT_CONFIG.initialDelay
DefaultInitialDelay == 1000

\* The direct request ahead of the custom CORS proxy.
TransportsDirectFirst ==
  <<"direct", "customProxy", "proxyService", "allorigins", "corsproxy.io",
    "cors-anywhere">>

\* The strategies of an attempt for a URL that is not xmltv.php, in the
\* order of the code: the custom CORS proxy, the direct request, then
\* fetchWithProxy: the proxy service and the three corsProxies.
Transports ==
  <<"customProxy", "direct", "proxyService", "allorigins", "corsproxy.io",
    "cors-anywhere">>

\* An attempt that stops after the direct request whatever useProxy says.
ApplicableDirectOnly(useProxy) == 1..2

\* `if (this.config.useProxy)`: fetchWithProxy is called only then.
Applicable(useProxy) == IF useProxy THEN 1..Len(Transports) ELSE 1..2

\* What a strategy may end with: a 2xx response whose body is read, a 2xx
\* response whose body cannot be read (response.json() or response.text()
\* rejects), a response that is not ok (success: false for the proxy
\* service), a thrown error.
Answers == {"ok", "unreadable", "notOk", "throws"}

\* A delay that grows by initialDelay with each retry.
BackoffDelayLinear(initialDelay, count) == initialDelay * (count + 1)

\* this.config.initialDelay * Math.pow(2, retryCount)
BackoffDelay(initialDelay, count) == initialDelay * 2^count

\* What is fetched: a catalog or playlist URL through fetchWithRetry, the
\* guide through fetchEPGXMLDirect (as getEPG and forceEPGDownload do), the
\* guide through fetchEPGXML.
FetchInputs ==
  [entry : {"fetchWithRetry", "fetchEPGXMLDirect", "fetchEPGXML"},
   useProxy : BOOLEAN,
   maxRetries : 0..DefaultMaxRetries,
   initialDelay : {DefaultInitialDelay, DefaultInitialDelay \div 4}]

Request(via, transport, count) ==
  [event |-> "request", via |-> via, transport |-> transport, retryCount |-> count]

Sleep(ms, count) == [event |-> "sleep", ms |-> ms, retryCount |-> count]

\* How the fetch stands: pending, a payload and the strategy it came from,
\* null, or the error thrown after the last attempt.
Settled(status, from) == [status |-> status, from |-> from]

\* The fetch is called: the first request of its first attempt is next.
FetchBegins ==
  /\ output.calls = 0
  /\ output' = [calls |-> 1, value |-> Settled("pending", "none"), retryCount |-> 0,
                via |-> IF input.entry = "fetchWithRetry" THEN "fetchWithRetry"
                        ELSE "fetchEPGXMLDirect",
                next |-> IF input.entry = "fetchWithRetry" THEN 1 ELSE 2,
                trace |-> <<>>, last |-> "none"]
  /\ UNCHANGED <<input, limiterVars, cacheVars, hookVars>>

\* An attempt of fetchWithRetry for a URL that is not xmltv.php: strategy
\* output.next answers.  A readable 2xx response is returned; anything else
\* falls through to the next strategy; past the last one the attempt
\* sleeps and retries while retryCount < maxRetries, else it throws.
CatalogAnswers(answer) ==
  LET i == output.next
      sent == Append(output.trace, Request("fetchWithRetry", Transports[i], output.retryCount))
  IN /\ input.entry = "fetchWithRetry"
     /\ Transports[i] = "proxyService" => answer # "unreadable"
     /\ output' =
          IF answer = "ok"
          THEN [output EXCEPT !.trace = sent, !.last = answer, !.next = 0,
                              !.value = Settled("ok", Transports[i])]
          ELSE IF i + 1 \in Applicable(input.useProxy)
          THEN [output EXCEPT !.trace = sent, !.last = answer, !.next = i + 1]
          ELSE IF output.retryCount < input.maxRetries
          THEN [output EXCEPT !.trace = sent, !.last = answer, !.next = -1]
          ELSE [output EXCEPT !.trace = sent, !.last = answer, !.next = 0,
                              !.value = Settled("threw", "none")]

\* The guide: fetchEPGXMLDirect sends one direct request and returns the
\* document or null.  fetchEPGXML then calls fetchWithRetry with the
\* xmltv.php URL, whose attempt is one more direct request and null on
\* any failure; getEPG and forceEPGDownload stop at the first null.
GuideAnswers(answer) ==
  LET sent == Append(output.trace, Request(output.via, "direct", output.retryCount))
  IN /\ input.entry # "fetchWithRetry"
     /\ output' =
          IF answer = "ok"
          THEN [output EXCEPT !.trace = sent, !.last = answer, !.next = 0,
                              !.value = Settled("ok", "direct")]
          ELSE IF input.entry = "fetchEPGXML" /\ output.via = "fetchEPGXMLDirect"
          THEN [output EXCEPT !.trace = sent, !.last = answer,
                              !.via = "fetchWithRetry"]
          ELSE [output EXCEPT !.trace = sent, !.last = answer, !.next = 0,
                              !.value = Settled("null", "none")]

\* The strategy that is next answers.
StrategyAnswers(answer) ==
  /\ output.calls = 1
  /\ output.value.status = "pending"
  /\ output.next > 0
  /\ CatalogAnswers(answer) \/ GuideAnswers(answer)
  /\ UNCHANGED <<input, limiterVars, cacheVars, hookVars>>

\* await this.sleep(initialDelay * 2^retryCount), then
\* fetchWithRetry(url, retryCount + 1).
BackoffElapses ==
  /\ output.calls = 1
  /\ output.next = -1
  /\ output' = [output EXCEPT
       !.trace = Append(@, Sleep(BackoffDelay(input.initialDelay, output.retryCount),
                                 output.retryCount)),
       !.retryCount = @ + 1,
       !.next = 1]
  /\ UNCHANGED <<input, limiterVars, cacheVars, hookVars>>

FetchNext ==
  \E answer \in Answers :
    \/ FetchBegins
    \/ StrategyAnswers(answer)
    \/ BackoffElapses

(***************************************************************************)
(* Part 10.  parseEPGXML on a guide document: the channel elements, the    *)
(* A&E alias ids, the programme elements and the final sort.  A document   *)
(* is the list of its channel elements and the list of its programme       *)
(* elements, in document order.  A start or stop attribute is a stamp in   *)
(* the raw form of the upstream (YYYYMMDDHHMMSS and an offset) or in ISO   *)
(* form, standing for instant `at`, or it is missing.                      *)
(***************************************************************************)

\* The longest lists of channel and programme elements of a document.
MaxGuideChannels == 2
MaxProgrammes == 2

\* The strings of the guide documents.
AEbr == <<"A", "E", ".", "b", "r">>
AEAmp == <<"a", "&", "e">>
AESpace == <<"a", " ", "e">>
AEAlt1 == <<"b", "r", "#", "a", "-", "e", "-", "h", "d">>
AEAlt2 == <<"a", "-", "e", "-", "h", "d">>
NameAE == <<"A", "&", "E">>
NameAE2 == <<"C", "a", "n", "a", "l", " ", "A", " ", "E">>
NameESPN == <<"E", "S", "P", "N">>
NameOther == <<"K", "i", "d", "s">>
IdESPN == <<"e", "s", "p", "n">>
AttrESPN == <<"E", "S", "P", "N", " ", "H", "D">>
AttrUnknown == <<"z", "z", "z">>

Stamp(form, at) == [form |-> form, at |-> at]

MissingAttribute == Stamp("missing", 0)

\* new Date(text).getTime() is NaN for a text Date cannot parse: the raw
\* form is such a text, the ISO form is not.
IsNaN(stamp) == stamp.form # "iso"

\* (a, b) => new Date(a.startTime).getTime() - new Date(b.startTime).getTime()
\* as Array.prototype.sort reads it: a NaN result counts as +0.
CompareStart(a, b) ==
  IF IsNaN(a.startTime) \/ IsNaN(b.startTime) THEN 0
  ELSE a.startTime.at - b.startTime.at

\* channel.programs.sort(...): the sort is stable.
RECURSIVE SortPrograms(_)
SortPrograms(programs) ==
  IF programs = <<>> THEN <<>>
  ELSE LET last == programs[Len(programs)]
           sorted == SortPrograms(SubSeq(programs, 1, Len(programs) - 1))
           before == {i \in DOMAIN sorted : CompareStart(sorted[i], last) <= 0}
           k == IF before = {} THEN 0 ELSE LastOf(before)
       IN SubSeq(sorted, 1, k) \o <<last>> \o SubSeq(sorted, k + 1, Len(sorted))

\* The first loop: a channel element without id or without display-name is
\* skipped, every other one becomes a channel with no programmes yet.
RECURSIVE ParsedChannels(_)
ParsedChannels(elements) ==
  IF elements = <<>> THEN <<>>
  ELSE LET e == Head(elements)
       IN (IF e.id = <<>> \/ e.name = <<>> THEN <<>>
           ELSE <<[id |-> e.id, name |-> e.name, programs |-> <<>>]>>)
          \o ParsedChannels(Tail(elements))

\* channelsMap.get(id): the channel set last under that id, 0 for none.
ChannelsMapGet(channels, id) ==
  LET hits == {i \in DOMAIN channels : channels[i].id = id}
  IN IF hits = {} THEN 0 ELSE LastOf(hits)

\* c.id === 'AE.br' || c.name.toLowerCase().includes('a&e')
\*   || c.name.toLowerCase().includes('a e')
IsAEChannel(c) ==
  \/ c.id = AEbr
  \/ Includes(ToLowerCase(c.name), AEAmp)
  \/ Includes(ToLowerCase(c.name), AESpace)

aeAlternativeIds == <<AEAlt1, AEAlt2>>

\* The alias ids of the A&E channel: for each id not in the map yet, a new
\* channel with the name of the A&E channel and a copy of its programme
\* list as it is at this point, which is empty.
WithAliases(channels) ==
  LET hits == {i \in DOMAIN channels : IsAEChannel(channels[i])}
  IN IF hits = {} THEN channels
     ELSE channels \o
          SelectSeq([n \in DOMAIN aeAlternativeIds |->
                       [id |-> aeAlternativeIds[n],
                        name |-> channels[FirstOf(hits)].name,
                        programs |-> channels[FirstOf(hits)].programs]],
                    LAMBDA alt : ChannelsMapGet(channels, alt.id) = 0)

\* A lookup that knows the raw id only.
ResolveRawOnly(channels, channelId) == ChannelsMapGet(channels, channelId)

\* The channel of a programme element: channelsMap.get(channelId), else,
\* for a channelId that is not empty,
\* channelsMap.get(normalizeChannelName(channelId)).
Resolve(channels, channelId) ==
  IF ChannelsMapGet(channels, channelId) # 0 THEN ChannelsMapGet(channels, channelId)
  ELSE IF channelId # <<>>
  THEN ChannelsMapGet(channels, normalizeChannelName(channelId))
  ELSE 0

\* !title || !program.getAttribute('start') || !program.getAttribute('stop')
Skipped(programme) ==
  \/ programme.title = ""
  \/ programme.start = MissingAttribute
  \/ programme.stop = MissingAttribute

\* The second loop: a programme whose channel resolves and that is not
\* skipped is pushed to the list of that channel.
RECURSIVE AddProgrammes(_, _)
AddProgrammes(channels, programmes) ==
  IF programmes = <<>> THEN channels
  ELSE LET programme == Head(programmes)
           i == Resolve(channels, programme.channel)
       IN IF i = 0 \/ Skipped(programme)
          THEN AddProgrammes(channels, Tail(programmes))
          ELSE AddProgrammes(
                 [channels EXCEPT ![i].programs =
                    Append(@, [title |-> programme.title,
                               startTime |-> programme.start,
                               endTime |-> programme.stop,
                               channel |-> channels[i].name])],
                 Tail(programmes))

\* parseEPGXML of a document the DOM parser accepts.
parseEPGXML(doc) ==
  LET channels == AddProgrammes(WithAliases(ParsedChannels(doc.channels)),
                                doc.programmes)
  IN [i \in DOMAIN channels |->
        [channels[i] EXCEPT !.programs = SortPrograms(@)]]

\* The channel elements and the programme elements documents are built of.
ChannelElements ==
  {[id |-> AEbr, name |-> NameAE],
   [id |-> IdESPN, name |-> NameESPN],
   [id |-> AEAlt2, name |-> NameOther],
   [id |-> <<>>, name |-> NameAE2]}

Element(channel, title, start, stop) ==
  [channel |-> channel, title |-> title, start |-> start, stop |-> stop]

\* Programme elements with stamps in the raw form: two of a channel in
\* both document orders, one found by its normalized channel id, one of an
\* unknown channel, one without title, one without stop, one without
\* either attribute.
RawProgrammeElements ==
  {Element(AEbr, "late", Stamp("raw", 2), Stamp("raw", 3)),
   Element(AEbr, "early", Stamp("raw", 1), Stamp("raw", 2)),
   Element(AttrESPN, "match", Stamp("raw", 1), Stamp("raw", 2)),
   Element(AttrUnknown, "lost", Stamp("raw", 1), Stamp("raw", 2)),
   Element(AEbr, "", Stamp("raw", 1), Stamp("raw", 2)),
   Element(AEbr, "open", Stamp("raw", 1), MissingAttribute),
   Element(AEbr, "timeless", MissingAttribute, MissingAttribute)}

\* Programme elements with stamps in ISO form.
IsoProgrammeElements ==
  {Element(AEbr, "late", Stamp("iso", 2), Stamp("iso", 3)),
   Element(AEbr, "early", Stamp("iso", 1), Stamp("iso", 2))}

SeqsUpTo(set, n) == UNION {[1..k -> set] : k \in 0..n}

GuideInputs ==
  {[channels |-> cs, programmes |-> ps] :
     cs \in SeqsUpTo(ChannelElements, MaxGuideChannels),
     ps \in SeqsUpTo(RawProgrammeElements, MaxProgrammes)
            \cup SeqsUpTo(IsoProgrammeElements, MaxProgrammes)}

\* parseEPGXML(doc)
ParseGuide ==
  /\ output.calls = 0
  /\ output' = [calls |-> 1, op |-> "parseEPGXML", value |-> parseEPGXML(input)]
  /\ UNCHANGED <<input, limiterVars, cacheVars, hookVars>>

GuideNext == ParseGuide

(***************************************************************************)
(* Part 11.  The channel selection of getEPG(channelId): the guide         *)
(* channels that have programmes, in name order, and the three places the  *)
(* channel is looked for.  The live catalog is what getLiveStreams()       *)
(* answered: a list of streams, or a rejection.                            *)
(***************************************************************************)

\* The characters of the names used here in the order localeCompare puts
\* them: white space, punctuation, symbols, digits, letters.
Collation ==
  <<" ", "-", ".", "(", ")", "&", "#", "+",
    "0", "1", "2", "3", "4", "5", "6", "7", "8", "9">> \o LowerCase

CollationRank(ch) ==
  LET l == LowerChar(ch)
  IN IF \E i \in DOMAIN Collation : Collation[i] = l
     THEN CHOOSE i \in DOMAIN Collation : Collation[i] = l
     ELSE Len(Collation) + 1

\* a.localeCompare(b) < 0 for names that differ in more than their case: the
\* first character that differs decides, a proper prefix comes first.
RECURSIVE LocaleBefore(_, _)
LocaleBefore(a, b) ==
  IF b = <<>> THEN FALSE
  ELSE IF a = <<>> THEN TRUE
  ELSE IF CollationRank(Head(a)) # CollationRank(Head(b))
       THEN CollationRank(Head(a)) < CollationRank(Head(b))
  ELSE LocaleBefore(Tail(a), Tail(b))

\* One channel put in its place in a list already in name order, behind the
\* channels it does not come before: the sort is stable.
RECURSIVE InsertByName(_, _)
InsertByName(channel, sorted) ==
  IF sorted = <<>> THEN <<channel>>
  ELSE IF LocaleBefore(channel.name, Head(sorted).name)
       THEN <<channel>> \o sorted
  ELSE <<Head(sorted)>> \o InsertByName(channel, Tail(sorted))

\* sort((a, b) => a.name.localeCompare(b.name))
RECURSIVE SortByName(_)
SortByName(channels) ==
  IF channels = <<>> THEN <<>>
  ELSE InsertByName(channels[Len(channels)],
                    SortByName(SubSeq(channels, 1, Len(channels) - 1)))

HasPrograms(channel) == channel.programs > 0

\* const filteredData: the channels with programs.length > 0, by name.
filteredData(epgData) ==
  LET kept == SelectSeq(epgData, HasPrograms)
  IN SortByName([i \in DOMAIN kept |-> [id |-> kept[i].id, name |-> kept[i].name]])

NoStream == [stream_id |-> NoString, id |-> NoString, name |-> NoString]

\* streams.find(s => s.stream_id === channelId || s.id === channelId)
FindStream(streams, channelId) ==
  LET hits == {i \in DOMAIN streams :
                 streams[i].stream_id = channelId \/ streams[i].id = channelId}
  IN IF hits = {} THEN NoStream
     ELSE streams[CHOOSE i \in hits : \A j \in hits : i <= j]

\* filteredData.filter(channel => channel.id === channelId)
DirectMatch(filtered, channelId) ==
  LET kept == {i \in DOMAIN filtered : filtered[i].id = channelId}
      RECURSIVE Pick(_)
      Pick(i) == IF i > Len(filtered) THEN <<>>
                 ELSE IF i \in kept THEN <<filtered[i]>> \o Pick(i + 1)
                 ELSE Pick(i + 1)
  IN Pick(1)

\* A selection that gives up when the catalog lookup is rejected.
SelectChannelsAborting(channelId, filtered, catalog) ==
  LET directMatch == DirectMatch(filtered, channelId)
      stream == IF catalog.threw THEN NoStream
                ELSE FindStream(catalog.streams, channelId)
      matchByName == IF stream = NoStream THEN NoChannel
                     ELSE findMatchingChannel(stream.name, filtered)
      match == findMatchingChannel(channelId, filtered)
  IN IF channelId = <<>> THEN filtered
     ELSE IF directMatch # <<>> THEN directMatch
     ELSE IF catalog.threw THEN <<>>
     ELSE IF matchByName # NoChannel THEN <<matchByName>>
     ELSE IF match # NoChannel THEN <<match>>
     ELSE <<>>

\* getEPG, the producer's choice of channels: all of filteredData without a
\* channelId, else the channels with that id, else the channel matching the
\* name of the live stream with that id, else the channel matching the
\* channelId, else none.  A rejected getLiveStreams() is caught and the
\* selection goes on.
SelectChannels(channelId, filtered, catalog) ==
  LET directMatch == DirectMatch(filtered, channelId)
      stream == IF catalog.threw THEN NoStream
                ELSE FindStream(catalog.streams, channelId)
      matchByName == IF stream = NoStream THEN NoChannel
                     ELSE findMatchingChannel(stream.name, filtered)
      match == findMatchingChannel(channelId, filtered)
  IN IF channelId = <<>> THEN filtered
     ELSE IF directMatch # <<>> THEN directMatch
     ELSE IF matchByName # NoChannel THEN <<matchByName>>
     ELSE IF match # NoChannel THEN <<match>>
     ELSE <<>>

\* Guide channels with the number of their programmes.
GuideChannelPool ==
  {[id |-> c.id, name |-> c.name, programs |-> 1] : c \in ChannelPool}
  \cup {[id |-> <<"x", "1">>, name |-> <<"A", "&", "E">>, programs |-> 0],
        [id |-> <<"E", "S", "P", "N">>, name |-> <<"E", "S", "P", "N", " ", "B", "r", "a", "s", "i", "l">>, programs |-> 0]}

GuideChannelLists ==
  UNION {{l \in [1..n -> GuideChannelPool] : \A i, j \in 1..n : l[i] = l[j] => i = j} :
           n \in 0..MaxChannels}

Stream(id, name) == [stream_id |-> id, id |-> id, name |-> name]

\* What getLiveStreams() answered.
Catalogs ==
  {[threw |-> TRUE, streams |-> <<>>],
   [threw |-> FALSE, streams |-> <<>>],
   [threw |-> FALSE, streams |-> <<Stream(<<"7">>, <<"A", "&", "E", " ", "H", "D">>)>>],
   [threw |-> FALSE, streams |-> <<Stream(<<"7">>, <<"G", "l", "o", "b", "o">>), Stream(<<"7">>, <<"A", "&", "E", " ", "H", "D">>)>>],
   [threw |-> FALSE, streams |-> <<Stream(<<"x", "1">>, <<"E", "S", "P", "N">>)>>]}

ChannelIds == {<<>>, <<"x", "1">>, <<"7">>, <<"e", "s", "p", "n">>, <<"A", "&", "E">>}

SelectionInputs ==
  [channelId : ChannelIds, epgData : GuideChannelLists, catalog : Catalogs]

\* The producer of getEPG(channelId) chooses its channels.
SelectGuideChannels ==
  /\ output.calls = 0
  /\ output' = [calls |-> 1,
                value |-> SelectChannels(input.channelId, filteredData(input.epgData),
                                         input.catalog)]
  /\ UNCHANGED <<input, limiterVars, cacheVars, hookVars>>

SelectionNext == SelectGuideChannels


(***************************************************************************)
(* Part 12.  The catalog lists of IPTVFetchService: mapXtreamToStreamType  *)
(* on the items of the structured API, parseM3UToStreamType and            *)
(* parseM3UCategories on a playlist, which is the sequence of its          *)
(* characters.                                                             *)
(***************************************************************************)

DigitChars == <<"0", "1", "2", "3", "4", "5", "6", "7", "8", "9">>

\* Number.prototype.toString of a natural number.
RECURSIVE Decimal(_)
Decimal(n) ==
  IF n < 10 THEN <<DigitChars[n + 1]>>
  ELSE Decimal(n \div 10) \o <<DigitChars[(n % 10) + 1]>>

\* An optional number: <<>> when the item has none, else <<n>>.
OptionalToString(field) == IF field = <<>> THEN <<>> ELSE Decimal(field[1])

\* item.stream_id?.toString() || item.series_id?.toString() || ''
XtreamId(item) ==
  IF OptionalToString(item.stream_id) # <<>> THEN OptionalToString(item.stream_id)
  ELSE IF OptionalToString(item.series_id) # <<>> THEN OptionalToString(item.series_id)
  ELSE <<>>

\* mapXtreamToStreamType: [] for what is not an array, else one record an
\* item, in the order of the items.
mapXtreamToStreamType(data) ==
  IF ~data.isArray THEN <<>>
  ELSE [i \in DOMAIN data.items |->
          [id |-> XtreamId(data.items[i]),
           name |-> data.items[i].name,
           stream_id |-> XtreamId(data.items[i])]]

\* infoLine.match(/key="([^"]+)"/i): the value of the leftmost place where
\* the key, in any case, an equals sign and a quotation mark are followed by
\* one character or more up to the next quotation mark; '' without one.
AttributeIgnoreCase(infoLine, key) ==
  LET lowered == SubSeq(ToLowerCase(infoLine), 1, Len(infoLine))
      value == AttributeValue(lowered, key)
      open == key \o <<"=", "\"">>
      starts == {s \in DOMAIN infoLine :
                   /\ StartsWithAt(lowered, open, s)
                   /\ \E q \in (s + Len(open) + 1)..Len(infoLine) :
                        /\ infoLine[q] = "\""
                        /\ \A j \in (s + Len(open))..(q - 1) : infoLine[j] # "\""}
  IN IF starts = {} THEN <<>>
     ELSE LET s == FirstOf(starts)
          IN SubSeq(infoLine, s + Len(open), s + Len(open) + Len(value) - 1)

\* infoLine.match(/,([^,]+)$/), trimmed: what follows the last comma, ''
\* when nothing follows it or the line has no comma.
NameOf(infoLine) ==
  LET commas == {i \in DOMAIN infoLine : infoLine[i] = ","}
  IN IF commas = {} \/ LastOf(commas) = Len(infoLine) THEN <<>>
     ELSE TrimString(SubSeq(infoLine, LastOf(commas) + 1, Len(infoLine)))

StreamTypes == {"live", "movie", "series"}

\* let streamType: movie for a group that holds movie, film or vod and for
\* a URL that holds /movie/, else series for a group that holds series or
\* show and for a URL that holds /series/, else live.
StreamTypeOf(group, urlLine) ==
  LET lowered == ToLowerCase(group)
  IN IF \/ Includes(lowered, <<"m", "o", "v", "i", "e">>) \/ Includes(lowered, <<"f", "i", "l", "m">>)
        \/ Includes(lowered, <<"v", "o", "d">>) \/ Includes(urlLine, <<"/", "m", "o", "v", "i", "e", "/">>)
     THEN "movie"
     ELSE IF \/ Includes(lowered, <<"s", "e", "r", "i", "e", "s">>) \/ Includes(lowered, <<"s", "h", "o", "w">>)
             \/ Includes(urlLine, <<"/", "s", "e", "r", "i", "e", "s", "/">>)
     THEN "series"
     ELSE "live"

\* m3uContent.split('\n') with every line trimmed, as the loops read them.
TrimmedLines(m3uContent) ==
  LET lines == Split(m3uContent)
  IN SubSeq([i \in DOMAIN lines |-> TrimString(lines[i])], 1, Len(lines))

\* lines[i].trim(), and '' for the undefined line after the last one.
TrimmedLine(lines, i) == IF i \in DOMAIN lines THEN lines[i] ELSE <<>>

\* The line is an #EXTINF line and the next one is neither empty nor a
\* line that starts with #.
IsEntryAt(lines, i) ==
  /\ StartsWithAt(TrimmedLine(lines, i), InfoPrefix, 1)
  /\ TrimmedLine(lines, i + 1) # <<>>
  /\ Head(TrimmedLine(lines, i + 1)) # "#"

M3UIdPrefix == <<"m", "3", "u", "_">>

\* The record pushed for the entry whose #EXTINF line is lines[i], the line
\* of index i - 1 of the code.
StreamAt(lines, i) ==
  LET infoLine == TrimmedLine(lines, i)
      tvgId == AttributeIgnoreCase(infoLine, TvgIdKey)
      logo == AttributeIgnoreCase(infoLine, LogoKey)
      id == IF tvgId # <<>> THEN tvgId ELSE M3UIdPrefix \o Decimal(i - 1)
  IN [id |-> id, name |-> NameOf(infoLine), url |-> TrimmedLine(lines, i + 1),
      cover |-> logo, stream_id |-> id,
      genres |-> <<AttributeIgnoreCase(infoLine, GroupKey)>>]

\* A scan that asks for the category before it asks for the type, and takes
\* every entry of the category.
RECURSIVE ScanStreamsAnyType(_, _, _, _)
ScanStreamsAnyType(lines, i, ofType, categoryId) ==
  IF i > Len(lines) THEN <<>>
  ELSE IF ~IsEntryAt(lines, i) THEN ScanStreamsAnyType(lines, i + 1, ofType, categoryId)
  ELSE LET group == AttributeIgnoreCase(TrimmedLine(lines, i), GroupKey)
       IN IF Truthy(categoryId)
          THEN IF group # categoryId
               THEN ScanStreamsAnyType(lines, i + 1, ofType, categoryId)
               ELSE <<StreamAt(lines, i)>> \o ScanStreamsAnyType(lines, i + 2, ofType, categoryId)
          ELSE IF StreamTypeOf(group, TrimmedLine(lines, i + 1)) # ofType
          THEN ScanStreamsAnyType(lines, i + 1, ofType, categoryId)
          ELSE <<StreamAt(lines, i)>> \o ScanStreamsAnyType(lines, i + 2, ofType, categoryId)

\* The loop of parseM3UToStreamType from line i on: a line that is no entry,
\* an entry of another type and an entry of another category are passed
\* over; an entry that is pushed takes its URL line with it.
RECURSIVE ScanStreams(_, _, _, _)
ScanStreams(lines, i, ofType, categoryId) ==
  IF i > Len(lines) THEN <<>>
  ELSE IF ~IsEntryAt(lines, i) THEN ScanStreams(lines, i + 1, ofType, categoryId)
  ELSE LET group == AttributeIgnoreCase(TrimmedLine(lines, i), GroupKey)
       IN IF StreamTypeOf(group, TrimmedLine(lines, i + 1)) # ofType
          THEN ScanStreams(lines, i + 1, ofType, categoryId)
          ELSE IF Truthy(categoryId) /\ group # categoryId
          THEN ScanStreams(lines, i + 1, ofType, categoryId)
          ELSE <<StreamAt(lines, i)>> \o ScanStreams(lines, i + 2, ofType, categoryId)

parseM3UToStreamType(m3uContent, ofType, categoryId) ==
  ScanStreams(TrimmedLines(m3uContent), 1, ofType, categoryId)

\* The loop of parseM3UCategories from line i on: the groups of the entries
\* of the type, each once, in the order they are first met; an entry
\* without group-title has the group Uncategorized.
RECURSIVE ScanCategories(_, _, _, _)
ScanCategories(lines, i, ofType, categories) ==
  IF i > Len(lines) THEN categories
  ELSE IF ~IsEntryAt(lines, i) THEN ScanCategories(lines, i + 1, ofType, categories)
  ELSE LET found == AttributeIgnoreCase(TrimmedLine(lines, i), GroupKey)
           group == IF found = <<>> THEN Uncategorized ELSE found
       IN IF StreamTypeOf(group, TrimmedLine(lines, i + 1)) # ofType
          THEN ScanCategories(lines, i + 1, ofType, categories)
          ELSE IF \E k \in DOMAIN categories : categories[k].id = group
          THEN ScanCategories(lines, i + 2, ofType, categories)
          ELSE ScanCategories(lines, i + 2, ofType,
                              Append(categories, [id |-> group, name |-> group]))

parseM3UCategories(m3uContent, ofType) ==
  ScanCategories(TrimmedLines(m3uContent), 1, ofType, <<>>)

\* The entries a playlist is written from: the attributes of the #EXTINF
\* line, the name, the path of the URL, and what stands between the two
\* lines.  group and tvgId are the values the attributes carry.
PlaylistEntry(attributes, group, tvgId, name, path, between) ==
  [attributes |-> attributes, group |-> group, tvgId |-> tvgId, name |-> name,
   path |-> path, between |-> between]

PlaylistEntries ==
  {PlaylistEntry(<<>>, <<>>, <<>>, <<"C", "N", "N">>, <<"/">>, "nothing"),
   PlaylistEntry(<<"t", "v", "g", "-", "i", "d", "=", "\"", "c", "n", "n", "\"", " ", "g", "r", "o", "u", "p", "-", "t", "i", "t", "l", "e", "=", "\"", "M", "o", "v", "i", "e", "s", "\"">>, <<"M", "o", "v", "i", "e", "s">>, <<"c", "n", "n">>, <<"T", "o", "p", " ", "2">>, <<"/">>, "nothing"),
   PlaylistEntry(<<"t", "v", "g", "-", "i", "d", "=", "\"", "c", "n", "n", "\"", " ", "g", "r", "o", "u", "p", "-", "t", "i", "t", "l", "e", "=", "\"", "T", "V", " ", "S", "h", "o", "w", "s", "\"">>, <<"T", "V", " ", "S", "h", "o", "w", "s">>, <<"c", "n", "n">>, <<"C", "N", "N">>, <<"/">>, "nothing"),
   PlaylistEntry(<<"g", "r", "o", "u", "p", "-", "t", "i", "t", "l", "e", "=", "\"", "N", "e", "w", "s", "\"">>, <<"N", "e", "w", "s">>, <<>>, <<"T", "o", "p", " ", "2">>, <<"/", "m", "o", "v", "i", "e", "/">>, "nothing"),
   PlaylistEntry(<<"G", "R", "O", "U", "P", "-", "T", "I", "T", "L", "E", "=", "\"", "V", "O", "D", " ", "S", "e", "r", "i", "e", "s", "\"">>, <<"V", "O", "D", " ", "S", "e", "r", "i", "e", "s">>, <<>>, <<"C", "N", "N">>, <<"/", "s", "e", "r", "i", "e", "s", "/">>, "nothing"),
   PlaylistEntry(<<"g", "r", "o", "u", "p", "-", "t", "i", "t", "l", "e", "=", "\"", "\"">>, <<>>, <<>>, <<"T", "o", "p", " ", "2">>, <<"/">>, "nothing"),
   PlaylistEntry(<<"g", "r", "o", "u", "p", "-", "t", "i", "t", "l", "e", "=", "\"", "N", "e", "w", "s", "\"">>, <<"N", "e", "w", "s">>, <<>>, <<"C", "N", "N">>, <<"/">>, "blank"),
   PlaylistEntry(<<"t", "v", "g", "-", "i", "d", "=", "\"", "c", "n", "n", "\"", " ", "g", "r", "o", "u", "p", "-", "t", "i", "t", "l", "e", "=", "\"", "M", "o", "v", "i", "e", "s", "\"">>, <<"M", "o", "v", "i", "e", "s">>, <<"c", "n", "n">>, <<"T", "o", "p", " ", "2">>, <<"/">>, "comment")}

\* The address of the k-th entry of a playlist.
PlaylistUrl(e, k) == <<"h", "t", "t", "p", ":", "/", "/", "a">> \o e.path \o <<DigitChars[k + 1]>>

\* The lines of one entry: the URL line follows the #EXTINF line at once,
\* or after an empty line, or after another line that starts with #.
EntryText(e, k) ==
  <<"\n">> \o InfoPrefix \o <<"-", "1">>
    \o (IF e.attributes = <<>> THEN <<>> ELSE <<" ">> \o e.attributes)
    \o <<",">> \o e.name
    \o (IF e.between = "blank" THEN <<"\n">>
        ELSE IF e.between = "comment" THEN <<"\n">> \o <<"#", "E", "X", "T", "V", "L", "C", "O", "P", "T", ":", "x">>
        ELSE <<>>)
    \o <<"\n">> \o PlaylistUrl(e, k)

RECURSIVE Playlist(_)
Playlist(entries) ==
  IF entries = <<>> THEN Header
  ELSE Playlist(SubSeq(entries, 1, Len(entries) - 1))
         \o EntryText(entries[Len(entries)], Len(entries))

\* The items of a structured answer: stream_id and series_id may be absent.
XtreamItems ==
  [stream_id : {<<>>, <<1>>, <<12>>}, series_id : {<<>>, <<1>>}, name : {<<"C", "N", "N">>}]

\* The category ids a caller asks for, undefined and '' among them.
CategoryIds == {NoString, <<>>, <<"M", "o", "v", "i", "e", "s">>, <<"N", "e", "w", "s">>, Uncategorized}

CatalogInputs ==
  {[mode |-> "m3u", entries |-> es, data |-> [isArray |-> FALSE, items |-> <<>>]] :
     es \in SeqsUpTo(PlaylistEntries, MaxItems)}
  \cup {[mode |-> "xtream", entries |-> <<>>, data |-> [isArray |-> TRUE, items |-> is]] :
          is \in SeqsUpTo(XtreamItems, MaxItems)}
  \cup {[mode |-> "xtream", entries |-> <<>>,
         data |-> [isArray |-> FALSE, items |-> <<>>]]}

\* A get*Streams call in playlist mode: parseM3UToStreamType of the content.
ParseM3UToStreamType(streamType, categoryId) ==
  /\ output.calls = 0
  /\ input.mode = "m3u"
  /\ output' = [calls |-> 1, op |-> "streams", type |-> streamType,
                categoryId |-> categoryId,
                value |-> parseM3UToStreamType(Playlist(input.entries), streamType,
                                               categoryId)]
  /\ UNCHANGED <<input, limiterVars, cacheVars, hookVars>>

\* A get*Categories call in playlist mode.
ParseM3UCategories(streamType) ==
  /\ output.calls = 0
  /\ input.mode = "m3u"
  /\ output' = [calls |-> 1, op |-> "categories", type |-> streamType,
                categoryId |-> NoString,
                value |-> parseM3UCategories(Playlist(input.entries), streamType)]
  /\ UNCHANGED <<input, limiterVars, cacheVars, hookVars>>

\* A get*Streams call in structured mode maps what the API answered.
MapXtreamToStreamType ==
  /\ output.calls = 0
  /\ input.mode = "xtream"
  /\ output' = [calls |-> 1, op |-> "xtream", type |-> "live", categoryId |-> NoString,
                value |-> mapXtreamToStreamType(input.data)]
  /\ UNCHANGED <<input, limiterVars, cacheVars, hookVars>>

CatalogNext ==
  \/ \E streamType \in StreamTypes, categoryId \in CategoryIds :
       ParseM3UToStreamType(streamType, categoryId)
  \/ \E streamType \in StreamTypes : ParseM3UCategories(streamType)
  \/ MapXtreamToStreamType


(***************************************************************************)
(* The specifications.  Spec is the limiter with the retrying fetcher,     *)
(* CacheSpec the cache-aside store with the operations built on it.        *)
(***************************************************************************)

vars == <<limiterVars, cacheVars, hookVars, pureVars>>

\* No fetch is in flight.
LimiterIdle ==
  /\ config = [maxRetries |-> DefaultMaxRetries,
               maxConcurrentRequests |-> DefaultMaxConcurrentRequests]
  /\ activeRequests = 0
  /\ requestQueue = <<>>
  /\ woken = <<>>
  /\ pc = [p \in Callers |-> "idle"]
  /\ retryCount = [p \in Callers |-> 0]
  /\ held = [p \in Callers |-> 0]
  /\ result = [p \in Callers |-> "none"]
  /\ incs = [p \in Callers |-> [k \in Attempts |-> 0]]
  /\ decs = [p \in Callers |-> [k \in Attempts |-> 0]]

\* An empty store and no call.
CacheIdle ==
  /\ type = "xtream"
  /\ store = [k \in StoreKeys |-> IF k \in SettingKeys THEN Setting ELSE Absent]
  /\ m3uCache = Null
  /\ now = 0
  /\ calls = 0
  /\ stale = [c \in Clients |-> EmptyList]
  /\ localStorage = LocalKeys
  /\ cpc = [c \in Clients |-> "idle"]
  /\ stack = [c \in Clients |-> <<>>]
  /\ guide = [c \in Clients |-> {}]
  /\ acquired = [c \in Clients |-> "none"]
  /\ seen = [c \in Clients |-> Absent]
  /\ val = [c \in Clients |-> {}]
  /\ ret = [c \in Clients |-> NoReturn]
  /\ producerCalls = [k \in CacheKeys |-> 0]
  /\ HookIdle

Init == LimiterInit /\ CacheIdle /\ PureIdle

Next ==
  \E p \in Callers :
    \/ FetchWithRetry(p)
    \/ Progress(p)

Spec == Init /\ [][Next]_vars

CacheSpecInit == LimiterIdle /\ CacheInit /\ PureIdle

CacheSpec == CacheSpecInit /\ [][CacheNext]_vars

\* The guide calls never read the catalog entries of a category: they
\* start from a store without cache entries, against an Xtream provider
\* (useIPTV constructs the service with 'xtream').
EPGSpecInit ==
  /\ LimiterIdle
  /\ CacheInit
  /\ PureIdle
  /\ type = "xtream"
  /\ store = [k \in StoreKeys |-> IF k \in SettingKeys THEN Setting ELSE Absent]

EPGSpec == EPGSpecInit /\ [][EPGNext]_vars

\* The hook of a mounted component: the service it constructs is of type
\* 'xtream'; the store holds no cache entry yet.
HookSpecInit ==
  /\ LimiterIdle
  /\ CacheInit
  /\ PureIdle
  /\ type = "xtream"
  /\ store = [k \in StoreKeys |-> IF k \in SettingKeys THEN Setting ELSE Absent]

HookSpec == HookSpecInit /\ [][HookNext]_vars

\* The channel selection of getEPG on its own, over guides and catalogs.
SelectionSpecInit ==
  /\ LimiterIdle
  /\ CacheIdle
  /\ input \in SelectionInputs
  /\ output = NoOutput

SelectionSpec == SelectionSpecInit /\ [][SelectionNext]_vars

\* The catalog lists on their own, over playlists and structured answers.
CatalogSpecInit ==
  /\ LimiterIdle
  /\ CacheIdle
  /\ input \in CatalogInputs
  /\ output = NoOutput

CatalogSpec == CatalogSpecInit /\ [][CatalogNext]_vars

\* findMatchingChannel on its own, over names and channel lists.
MatchSpecInit ==
  /\ LimiterIdle
  /\ CacheIdle
  /\ input \in MatchInputs
  /\ output = NoOutput

MatchSpec == MatchSpecInit /\ [][MatchNext]_vars

\* adjustEPGDate on its own, over raw stamps and other strings.
DateSpecInit ==
  /\ LimiterIdle
  /\ CacheIdle
  /\ input \in DateInputs
  /\ output = NoOutput

DateSpec == DateSpecInit /\ [][DateNext]_vars

\* The M3U service on its own, over hand-written documents.
M3USpecInit ==
  /\ LimiterIdle
  /\ CacheIdle
  /\ input \in M3UInputs
  /\ output = NoOutput

M3USpec == M3USpecInit /\ [][M3UNext]_vars

\* The programme lookups on their own.
ProgramSpecInit ==
  /\ LimiterIdle
  /\ CacheIdle
  /\ input \in ProgramInputs
  /\ output = NoOutput

ProgramSpec == ProgramSpecInit /\ [][ProgramNext]_vars

\* The key composition on its own, over pairs of requests.
KeySpecInit ==
  /\ LimiterIdle
  /\ CacheIdle
  /\ input \in KeyInputs
  /\ output = NoOutput

KeySpec == KeySpecInit /\ [][KeyNext]_vars

\* The catalog fetches of the limiter together with the guide downloads
\* of getEPG() and forceEPGDownload().
TransportNext ==
  \/ \E p \in Callers :
       \/ FetchWithRetry(p)
       \/ Progress(p)
  \/ \E c \in Clients :
       \/ GetEPG(c, "all")
       \/ Check(c)
       \/ \E d \in {"networkError", "guide"} : EPGProducer(c, d)
       \/ Put(c)
       \/ HookForceEPGDownload(c)
       \/ \E d \in {"networkError", "guide"} : ForceEPGDownload(c, d)

TransportSpecInit ==
  /\ LimiterInit
  /\ config.maxRetries = 1
  /\ CacheInit
  /\ PureIdle
  /\ type = "xtream"
  /\ store = [k \in StoreKeys |-> IF k \in SettingKeys THEN Setting ELSE Absent]

TransportSpec == TransportSpecInit /\ [][TransportNext]_vars

\* Guide and catalog calls whose acquisition may fail, against a provider
\* of either type, from a store without cache entries.
AcquisitionNext ==
  \/ Tick
  \/ \E c \in Clients :
       \/ \E sel \in EPGSelectors : GetEPG(c, sel)
       \/ GetLiveStreams(c, "cat1")
       \/ Check(c)
       \/ \E d \in {"networkError", "guide"} : EPGProducer(c, d)
       \/ ProducerReturns(c)
       \/ ProducerThrows(c)
       \/ Put(c)

AcquisitionSpecInit ==
  /\ LimiterIdle
  /\ CacheInit
  /\ PureIdle
  /\ store = [k \in StoreKeys |-> IF k \in SettingKeys THEN Setting ELSE Absent]

AcquisitionSpec == AcquisitionSpecInit /\ [][AcquisitionNext]_vars

\* forceEPGDownload beside getEPG, from a store that may hold a guide entry
\* an earlier getEPG cached.
CachedGuide == Item(FilteredData(ParseEPGXML("otherGuide")), 0)

ForceNext ==
  \/ Tick
  \/ \E c \in Clients :
       \/ GetEPG(c, "all")
       \/ Check(c)
       \/ \E d \in {"networkError", "guide"} : EPGProducer(c, d)
       \/ Put(c)
       \/ HookForceEPGDownload(c)
       \/ \E d \in Downloads : ForceEPGDownload(c, d)
       \/ HookSettles(c)

ForceSpecInit ==
  /\ LimiterIdle
  /\ PureIdle
  /\ HookIdle
  /\ type = "xtream"
  /\ m3uCache = Null
  /\ localStorage = LocalKeys
  /\ now = 0
  /\ calls = 0
  /\ stale = [c \in Clients |-> EmptyList]
  /\ cpc = [c \in Clients |-> "idle"]
  /\ stack = [c \in Clients |-> <<>>]
  /\ guide = [c \in Clients |-> {}]
  /\ acquired = [c \in Clients |-> "none"]
  /\ seen = [c \in Clients |-> Absent]
  /\ val = [c \in Clients |-> {}]
  /\ ret = [c \in Clients |-> NoReturn]
  /\ producerCalls = [k \in CacheKeys |-> 0]
  /\ \E e \in {Absent, CachedGuide} :
       store = [k \in StoreKeys |->
                 IF k \in SettingKeys THEN Setting
                 ELSE IF k = Key("epg", "all") THEN e
                 ELSE Absent]

ForceSpec == ForceSpecInit /\ [][ForceNext]_vars

\* parseEPGXML on its own, over guide documents.
GuideSpecInit ==
  /\ LimiterIdle
  /\ CacheIdle
  /\ input \in GuideInputs
  /\ output = NoOutput

GuideSpec == GuideSpecInit /\ [][GuideNext]_vars

\* One logical fetch on its own, whatever its strategies answer.
FetchSpecInit ==
  /\ LimiterIdle
  /\ CacheIdle
  /\ input \in FetchInputs
  /\ output = NoOutput

FetchSpec == FetchSpecInit /\ [][FetchNext]_vars

\* Timers fire, network calls settle and resolved continuations run: every
\* step of a started fetch that stays possible is eventually taken.  Nothing
\* obliges a new fetch to be started.
FairSpec == Spec /\ \A p \in Callers : WF_vars(Progress(p))

(***************************************************************************)
(* Claims about the limiter and the retrying fetcher.                      *)
(***************************************************************************)

\* A caller that holds a limiter slot: past the capacity check of
\* enqueueRequest and not yet through its finally block.
Holding(p) == held[p] > 0

\* A caller suspended in enqueueRequest: in the queue, or resolved and not
\* yet resumed.
Waiting(p) == pc[p] \in {"queued", "woken"}

\* C1: at every instant the number of requests holding a limiter slot is at
\* most maxConcurrentRequests, whatever the interleaving of arrivals,
\* releases and wake-ups.
CapacityBound == activeRequests <= config.maxConcurrentRequests

\* C2: a logical fetch whose every attempt fails ends with an error after
\* its retries are used up; a started fetch never hangs.
RetryExhaustionTerminates ==
  \A p \in Callers : (pc[p] # "idle") ~> (pc[p] = "done")

\* C3: there is no lost wake-up (a waiter is never left in the queue with
\* the active count below the maximum and no wake-up pending), and if every
\* caller that holds a slot eventually gives it back, every queued caller
\* is eventually granted a slot.
NoStarvation ==
  /\ [](requestQueue # <<>> /\ activeRequests < config.maxConcurrentRequests
          => woken # <<>>)
  /\ (\A q \in Callers : []<>(~Holding(q)))
       => \A p \in Callers : (pc[p] = "queued") ~> (pc[p] = "pacing")

\* C3 witness: a release has resolved the promise of a queued waiter.
NoStarvationWitness ==
  \E p \in Callers : pc[p] = "woken" /\ activeRequests < config.maxConcurrentRequests

\* C4: every execution of enqueueRequest increments the counter exactly
\* once and decrements it exactly once, whether its request returned or
\* threw; the counter is never negative and is 0 once every started fetch
\* has finished.
ReleaseExactlyOnce ==
  /\ activeRequests >= 0
  /\ \A p \in Callers : \A k \in Attempts :
       /\ decs[p][k] <= incs[p][k]
       /\ incs[p][k] <= 1
       /\ (pc[p] = "done" /\ k <= retryCount[p])
            => (incs[p][k] = 1 /\ decs[p][k] = 1)
  /\ (\A p \in Callers : pc[p] \in {"idle", "done"}) => activeRequests = 0

\* C4 witness: every caller has finished, one of them by a throw that
\* passed through nested attempts, another by a return.
ReleaseExactlyOnceWitness ==
  /\ \A p \in Callers : pc[p] = "done"
  /\ \E p \in Callers : result[p] = "failed" /\ retryCount[p] > 0
  /\ \E p \in Callers : result[p] = "ok"

\* C5: slots are granted in arrival order: whenever a caller passes to
\* activeRequests++, no caller that invoked enqueueRequest earlier is still
\* waiting for its slot.  A caller granted straight at its arrival arrived
\* after every waiter; a resumed waiter is the oldest one.
FirstComeFirstServed ==
  [][\A p \in Callers :
       (pc[p] \in {"idle", "backoff"} /\ pc'[p] = "pacing")
         => \A q \in Callers : ~Waiting(q)]_vars

(***************************************************************************)
(* Claims about the cache-aside store, clearCache and getEPG.              *)
(***************************************************************************)

\* Client c passes the validity test of getCachedOrFetch in this step.
CheckStep(c) == cpc[c] = "check" /\ <<cpc[c], stack[c]>>' # <<cpc[c], stack[c]>>

\* The step returns from the frame: nothing was fetched.
ServedFromCache(c) == Len(stack'[c]) < Len(stack[c])

\* The step calls fetchFn of the frame's key.
ProducerInvoked(c) ==
  /\ producerCalls' = [producerCalls EXCEPT ![Top(c)] = @ + 1]
  /\ ~ServedFromCache(c)

\* Client c completes db.settings.put in this step.
PutStep(c) == cpc[c] = "put" /\ stack'[c] # stack[c]

\* C6: a getCachedOrFetch that finds an entry written less than cacheTime
\* ago calls no producer and returns the stored payload, so that two
\* successive calls less than cacheTime apart invoke the producer once;
\* one that finds the entry cacheTime old or older invokes the producer
\* again.
CacheHitWithinTTL ==
  [][\A c \in Clients :
       (CheckStep(c) /\ seen[c].kind = "item")
         => IF now - seen[c].timestamp < CacheTime
            THEN /\ producerCalls' = producerCalls
                 /\ ServedFromCache(c)
                 /\ Len(stack[c]) = 1
                      => ret'[c] = [status |-> "ok", data |-> seen[c].data]
            ELSE ProducerInvoked(c)]_vars

\* C6 witness: the first call fetched and stored its payload, the second
\* call returned that payload, and the producer of the key ran once.
CacheHitWithinTTLWitness ==
  /\ type = "xtream"
  /\ cpc[1] = "done" /\ cpc[2] = "done"
  /\ ret[1] = [status |-> "ok", data |-> Payload(1)]
  /\ ret[2] = ret[1]
  /\ store[Key("live", "cat1")].kind = "item"
  /\ store[Key("live", "cat1")].data = Payload(1)
  /\ producerCalls[Key("live", "cat1")] = 1
  /\ producerCalls[Key("live", "cat2")] = 0

\* C7: a payload is returned from the store only if its age is below
\* cacheTime; an expired entry and a value that does not parse are treated
\* as no entry (the producer is called); a put replaces the whole entry of
\* its key by the new payload with the current time and touches no other
\* key.
NoStaleRead ==
  [][\A c \in Clients :
       /\ (CheckStep(c) /\ ServedFromCache(c))
            => /\ seen[c].kind = "item"
               /\ now - seen[c].timestamp < CacheTime
       /\ (CheckStep(c) /\ (\/ seen[c].kind \in {"absent", "corrupt"}
                             \/ /\ seen[c].kind = "item"
                                /\ now - seen[c].timestamp >= CacheTime))
            => ProducerInvoked(c)
       /\ PutStep(c)
            => /\ store'[Top(c)] =
                    [kind |-> "item", data |-> val[c], timestamp |-> now]
               /\ \A k \in StoreKeys \ {Top(c)} : store'[k] = store[k]]_vars

\* C7 witness: the entry a previous session left at time 0 was served to
\* the first call and, having expired, was replaced by the second call
\* with its own payload and the time of the put.
NoStaleReadWitness ==
  /\ cpc[1] = "done" /\ cpc[2] = "done"
  /\ ret[1] = [status |-> "ok", data |-> {"old"}]
  /\ ret[2] = [status |-> "ok", data |-> Payload(2)]
  /\ \E sel \in {"cat1", "cat2"} :
       store[Key("live", sel)] = Item(Payload(2), CacheTime)

\* C8: the transaction of clearCache leaves no row whose key starts with
\* 'cache:' (every selector's entry is removed) and a null playlist hold,
\* and leaves the other rows; a getCachedOrFetch that finds no row calls
\* its producer, so the next getLiveStreams('cat1') fetches again.
ClearCacheRemovesAll ==
  [][\A c \in Clients :
       /\ (cpc[c] = "clear" /\ cpc'[c] = "done")
            => /\ \A k \in StoreKeys :
                    store'[k] = IF k[1] = "cache" THEN Absent ELSE store[k]
               /\ m3uCache' = Null
       /\ (CheckStep(c) /\ seen[c].kind = "absent") => ProducerInvoked(c)]_vars

\* C8 witness: clearCache found and deleted the entries of cat1 and cat2,
\* both still fresh, and the call of getLiveStreams('cat1') made next is
\* waiting for its network producer.
ClearCacheRemovesAllWitness ==
  /\ cpc[1] = "done"
  /\ {Key("live", "cat1"), Key("live", "cat2")} \subseteq val[1]
  /\ \A k \in CacheKeys : store[k] = Absent
  /\ m3uCache = Null
  /\ now < CacheTime
  /\ cpc[2] = "produce"
  /\ stack[2] = <<Key("live", "cat1")>>

\* The guide could not be acquired by call c.
AcquisitionFailed(c) == acquired[c] \in {"downloadFailed", "parseFailed"}

\* C9: a guide call that failed leaves no entry of its own in the cache:
\* the step that ends a failed getEPG writes nothing under its key.
FailedCallWritesNothing ==
  [][\A c \in Clients :
       (PutStep(c) /\ Kind(Top(c)) = "epg" /\ AcquisitionFailed(c))
         => store'[Top(c)] = store[Top(c)]]_vars

\* C10: getEPG does not raise; when the download failed or the document
\* could not be parsed, it resolves to the empty list.
EPGNeverAborts ==
  \A c \in Clients :
    cpc[c] = "done"
      => /\ ret[c].status = "ok"
         /\ AcquisitionFailed(c) => ret[c].data = EmptyList

\* C10 witness: one getEPG ended after a failed download and another after
\* a failed parse, one of them asked with a channel id.
EPGNeverAbortsWitness ==
  /\ cpc[1] = "done" /\ cpc[2] = "done"
  /\ {acquired[1], acquired[2]} = {"downloadFailed", "parseFailed"}
  /\ store[Key("epg", "ch1")].kind = "item"
  /\ store[Key("epg", "all")].kind = "item"

(***************************************************************************)
(* Claims about forceEPGDownload and the useIPTV hook.                     *)
(***************************************************************************)

\* C11: forceEPGDownload does not throw; it returns true exactly when the
\* guide was downloaded and parsed, and false when the download failed or
\* the document did not parse.
ForceRefreshResult ==
  \A c \in Clients :
    (op[c] = "forceEPGDownload" /\ cpc[c] \in {"done", "returned"})
      => /\ ret[c].status \in {"true", "false"}
         /\ ret[c].status = "true" <=> acquired[c] = "parsed"

\* The hook action of client c returns in this step.
HookFinishes(c) == cpc[c] = "done" /\ cpc'[c] = "returned"

\* The service call the hook action awaited failed: it rejected, returned
\* false, or could not acquire the guide.
ServiceCallFailed(c) ==
  \/ ret[c].status \in {"threw", "false"}
  \/ AcquisitionFailed(c)

\* C12: a hook action never rejects and leaves isLoading false; when its
\* service call failed it returns the empty collection (false for
\* forceEPGDownload) and error holds a message.
HookNeverFaults ==
  [][\A c \in Clients :
       HookFinishes(c)
         => /\ isLoading' = FALSE
            /\ ret'[c].status # "threw"
            /\ ServiceCallFailed(c)
                 => /\ error' = "message"
                    /\ ret'[c].status \in {"ok", "false"}
                    /\ ret'[c].data = EmptyList]_vars

(***************************************************************************)
(* Claims about channel matching.                                          *)
(***************************************************************************)

\* C13: findMatchingChannel returns the value its two arguments determine;
\* for a non-empty name, when substring containment or keyword overlap
\* would select a channel and the alias dictionary selects one, the
\* dictionary's channel is returned, and when the dictionary selects none
\* and an id equal to the name does, that channel is returned.
HigherPriorityWins ==
  output.calls > 0 =>
    LET name == input.channelName
        channels == input.channels
        alias == KnownChannelMatch(name, channels)
        exactId == ExactIdMatch(name, channels)
        lower == \/ ContainedInMatch(name, channels) # NoChannel
                 \/ KeywordMatch(name, channels) # NoChannel
    IN /\ output.value = findMatchingChannel(name, channels)
       /\ (name # <<>> /\ lower /\ alias # NoChannel) => output.value = alias
       /\ (name # <<>> /\ lower /\ alias = NoChannel /\ exactId # NoChannel)
            => output.value = exactId

\* C13 witness: the dictionary and substring containment select different
\* channels of the list, and the dictionary's one was returned.
HigherPriorityWinsWitness ==
  /\ output.calls > 0
  /\ input.channelName # <<>>
  /\ KnownChannelMatch(input.channelName, input.channels) # NoChannel
  /\ ContainedInMatch(input.channelName, input.channels) # NoChannel
  /\ ContainedInMatch(input.channelName, input.channels)
       # KnownChannelMatch(input.channelName, input.channels)
  /\ output.value = KnownChannelMatch(input.channelName, input.channels)

\* C14: for every capitalization and spacing of A&E, with or without a
\* quality suffix, the alias dictionary gives AE.br and findMatchingChannel
\* returns the channel of that id whenever the list has one.
AEAlias ==
  (/\ output.calls > 0
   /\ input.channelName \in AEVariants
   /\ \E i \in DOMAIN input.channels : input.channels[i].id = <<"A", "E", ".", "b", "r">>)
    => /\ getKnownChannelMapping(input.channelName) = <<"A", "E", ".", "b", "r">>
       /\ output.value.id = <<"A", "E", ".", "b", "r">>
       /\ output.value = KnownChannelMatch(input.channelName, input.channels)

\* C14 witness: 'a & E HD' was looked up in a list where a channel named
\* A&E precedes the channel of id AE.br, and the latter was returned.
AEAliasWitness ==
  /\ output.calls > 0
  /\ input.channelName = <<"a", " ", "&", " ", "E", " ", "H", "D">>
  /\ Len(input.channels) = 2
  /\ input.channels[1].name = <<"A", "&", "E">>
  /\ input.channels[2].id = <<"A", "E", ".", "b", "r">>
  /\ output.value = input.channels[2]

(***************************************************************************)
(* Claims about adjustEPGDate.                                             *)
(***************************************************************************)

\* YYYY-MM-DDTHH:MM:SS followed by the offset as sign HH:MM.
IsoStamp(p) ==
  p.year \o <<"-">> \o p.month \o <<"-">> \o p.day \o <<"T">> \o p.hour \o <<":">>
    \o p.minute \o <<":">> \o p.second \o <<p.sign>> \o p.offsetHours \o <<":">>
    \o p.offsetMinutes

\* C15: adjustEPGDate maps a raw stamp to the ISO form with the same field
\* values and returns any other string unchanged, and applying it to its
\* own result changes nothing.
NormalizeIdempotent ==
  output.calls > 0
    => output.value =
         IF input.parts = NoParts THEN input.dateStr ELSE IsoStamp(input.parts)

\* C15 witness: a stamp with a negative offset after two whitespace
\* characters was normalized twice.
NormalizeIdempotentWitness ==
  /\ output.calls = 2
  /\ input.parts # NoParts
  /\ input.parts.sign = "-"
  /\ Len(input.parts.space) = 2
  /\ output.value # input.dateStr

(***************************************************************************)
(* Claims about the M3U service.                                           *)
(***************************************************************************)

Triple(item) ==
  [name |-> item.name, url |-> item.url,
   group |-> IF item.group = NoString THEN Uncategorized ELSE item.group]

Triples(items) == [i \in DOMAIN items |-> Triple(items[i])]

\* The entries a document was written from that a list holds, in the
\* order of the document.
GroupsOf(list) ==
  IF list = "movies" THEN {<<"F", "i", "l", "m", "e", "s">>}
  ELSE IF list = "series" THEN {<<"S", "e", "r", "i", "e", "s">>}
  ELSE {NoString, <<"T", "V", " ", "S", "h", "o", "w", "s">>}

EntriesOf(list) ==
  LET Keep(e) == e.group \in GroupsOf(list)
  IN Triples(SelectSeq(input.entries, Keep))

\* C16: parsing a well-formed document yields its entries by
\* (name, url, group) in the order of the document, and parsing the
\* playlist generated from a list of parsed items yields that list again
\* by (name, url, group), in the same order.
M3URoundTrip ==
  /\ output.calls = 1 /\ output.value # Threw
       => \A list \in Lists : Triples(output.value[list]) = EntriesOf(list)
  /\ output.calls = 3
       => /\ output.value # Threw
          /\ Triples(output.value[output.list]) = EntriesOf(output.list)
          /\ Triples(output.value[output.list]) = Triples(output.parsed[output.list])
          /\ \A list \in Lists \ {output.list} : output.value[list] = <<>>

\* C16 witness: a document of two movies, the second without a line feed
\* after its address, went through the round trip.
M3URoundTripWitness ==
  /\ output.calls = 3
  /\ output.list = "movies"
  /\ Len(output.value.movies) = 2
  /\ output.value.movies[1].url # output.value.movies[2].url
  /\ input.content[Len(input.content)] # "\n"

(***************************************************************************)
(* Claims about the current and the next programme.                        *)
(***************************************************************************)

Brackets(p) == p.startTime <= input.clock /\ input.clock < p.endTime

Later == {i \in DOMAIN input.programs : input.programs[i].startTime > input.clock}

\* C17: getCurrentProgram returns a programme exactly when one brackets
\* now (start <= now < stop), and the one it returns brackets now;
\* getNextProgram returns the programme of the earliest start among those
\* that start strictly after now, or nothing when there is none.
CurrentAndNext ==
  output.calls = 1
    => IF output.op = "getNextProgram"
       THEN IF Later = {} THEN output.value = NoProgram
            ELSE /\ \E i \in Later : output.value = input.programs[i]
                 /\ \A i \in Later : output.value.startTime <= input.programs[i].startTime
       ELSE IF \E i \in DOMAIN input.programs : Brackets(input.programs[i])
            THEN \E i \in DOMAIN input.programs :
                   output.value = input.programs[i] /\ Brackets(output.value)
            ELSE output.value = NoProgram

(***************************************************************************)
(* Claims about the channels getEPG returns.                               *)
(***************************************************************************)

\* C18: every channel in the list getEPG returns, asked with or without a
\* channel id and served by any stage of the matching or from the cache,
\* has at least one programme.
NoEmptyChannelReturned ==
  \A c \in Clients :
    cpc[c] = "done" => \A channel \in ret[c].data : channel.programs > 0

\* C18 witness: the guide held a channel without programmes; one call
\* returned the whole filtered guide, and a call with a channel id that is
\* no id of the guide returned the channel the matching picked.
NoEmptyChannelReturnedWitness ==
  /\ cpc[1] = "done" /\ cpc[2] = "done"
  /\ ret[1].data = {[id |-> "ch1", programs |-> 1]}
  /\ ret[2].data = {[id |-> "espn", programs |-> 1]}
  /\ store[Key("epg", "all")].kind = "item"
  /\ store[Key("epg", "ch1")].kind = "item"
  /\ store[Key("live", "all")].kind = "item"

(***************************************************************************)
(* Claims about the cache keys.                                            *)
(***************************************************************************)

\* C19: two requests of one service instance that differ in resource kind
\* or in selector (two category ids, no category and some category id,
\* two channel ids) have different cache keys.
KeysDoNotCollide ==
  (/\ output.calls = 1
   /\ \/ input.first.method # input.second.method
      \/ input.first.selector # input.second.selector)
    => output.value[1] # output.value[2]

(***************************************************************************)
(* Claims about the playlist hold.                                         *)
(***************************************************************************)

\* Client c calls getM3UContent in this step.
GetM3UContentStep(c) ==
  /\ cpc[c] = "idle"
  /\ stack'[c] = <<M3UKey>> \/ cpc'[c] = "done"

\* The transaction of a clearCache commits in this step.
ClearCacheStep == \E c \in Clients : cpc[c] = "clear" /\ cpc'[c] = "done"

\* C20: once the hold keeps a body fetched from the network it keeps that
\* body, whatever time passes, until clearCache empties it, and nothing
\* else empties it; a getM3UContent called while the hold is set returns
\* the body held and reads neither the store nor the network.
PlaylistHold ==
  [][/\ m3uCache # Null
          => \/ m3uCache' = m3uCache
             \/ m3uCache' = Null /\ ClearCacheStep
     /\ \A c \in Clients :
          (GetM3UContentStep(c) /\ m3uCache # Null)
            => /\ cpc'[c] = "done"
               /\ ret'[c] = [status |-> "ok", data |-> m3uCache]
               /\ seen' = seen
               /\ producerCalls' = producerCalls]_vars

(***************************************************************************)
(* Claims about the slots of a retrying fetch and the transport.           *)
(***************************************************************************)

\* C21: a logical fetch holds at most one limiter slot at any time: the
\* slot of an attempt is given back before the backoff sleep and before
\* the next attempt asks for its own.
OneSlotPerFetch ==
  \A p \in Callers :
    /\ held[p] <= 1
    /\ pc[p] \in {"backoff", "queued", "woken"} => held[p] = 0

\* A request of the transport is in flight: a catalog request of a fetch,
\* the guide download of a getEPG producer or of forceEPGDownload.
CatalogRequests == {p \in Callers : pc[p] = "request"}

GuideDownloads ==
  {c \in Clients : cpc[c] = "force" \/ (cpc[c] = "produce" /\ Kind(Top(c)) = "epg")}

\* C22: every outbound request is issued while its caller holds a limiter
\* slot, the guide downloads of getEPG and forceEPGDownload included, so
\* the requests in flight are no more than the slots taken and no more
\* than maxConcurrentRequests.
AllRequestsHoldSlots ==
  /\ Cardinality(CatalogRequests) + Cardinality(GuideDownloads) <= activeRequests
  /\ Cardinality(CatalogRequests) + Cardinality(GuideDownloads)
       <= config.maxConcurrentRequests

\* The requests and the sleeps of the fetch, and the requests of attempt
\* count, in the order they were made.
IsRequest(e) == e.event = "request"

IsSleep(e) == e.event = "sleep"

AttemptRequests(count) ==
  SelectSeq(output.trace, LAMBDA e : IsRequest(e) /\ e.retryCount = count)

Sleeps == SelectSeq(output.trace, IsSleep)

LastRequest == output.trace[Len(output.trace)]

Fetching(entry) == output.calls = 1 /\ "trace" \in DOMAIN output /\ input.entry = entry

\* C23: a guide acquisition is reported as failed only after the generic
\* path was exercised as well: a backoff retry, and a request through a
\* proxy or the relay.
GuideSecondaryAvenue ==
  (\/ Fetching("fetchEPGXMLDirect")
   \/ Fetching("fetchEPGXML")) /\ output.value.status = "null"
    => /\ Len(Sleeps) > 0
       /\ \E j \in 1..Len(output.trace) :
            IsRequest(output.trace[j]) /\ output.trace[j].transport # "direct"

\* The order the strategies of an attempt are to be contacted in.
SpecifiedOrder ==
  <<"customProxy", "direct", "proxyService", "allorigins", "corsproxy.io",
    "cors-anywhere">>

\* C24: in an attempt for a URL that is not the guide the strategies are
\* contacted in the order custom proxy, direct, proxy service, public
\* proxies; a 2xx response ends the attempt with the payload of that
\* strategy and nothing is contacted after it; a payload of the proxy
\* service comes in the attempt whose custom proxy and direct request
\* failed, with no sleep in between.
TransportOrderAndShortCircuit ==
  Fetching("fetchWithRetry") =>
    /\ \A count \in 0..input.maxRetries :
         \A k \in 1..Len(AttemptRequests(count)) :
           AttemptRequests(count)[k].transport = SpecifiedOrder[k]
    /\ output.last \in {"ok", "unreadable"} =>
         /\ output.value = Settled("ok", LastRequest.transport)
         /\ output.next = 0
    /\ output.value = Settled("ok", "proxyService") =>
         /\ Len(AttemptRequests(output.retryCount)) = 3
         /\ \A j \in 1..Len(Sleeps) : Sleeps[j].retryCount < output.retryCount
         /\ IsRequest(LastRequest)

\* C24, amended: the same, for a 2xx response whose body is read; a 2xx
\* response whose body cannot be read is a failure of its strategy and the
\* next strategy is contacted.
TransportOrderAndShortCircuitReadable ==
  Fetching("fetchWithRetry") =>
    /\ \A count \in 0..input.maxRetries :
         \A k \in 1..Len(AttemptRequests(count)) :
           AttemptRequests(count)[k].transport = SpecifiedOrder[k]
    /\ output.last = "ok" =>
         /\ output.value = Settled("ok", LastRequest.transport)
         /\ output.next = 0
    /\ output.value.status = "ok" => output.last = "ok"
    /\ /\ output.last = "unreadable"
       /\ Len(AttemptRequests(output.retryCount)) < (IF input.useProxy THEN 6 ELSE 2)
       => /\ output.value.status = "pending"
          /\ output.next = Len(AttemptRequests(output.retryCount)) + 1
    /\ output.value = Settled("ok", "proxyService") =>
         /\ Len(AttemptRequests(output.retryCount)) = 3
         /\ \A j \in 1..Len(Sleeps) : Sleeps[j].retryCount < output.retryCount
         /\ IsRequest(LastRequest)

\* The proxy service answers after the custom proxy and the direct request
\* of the first attempt failed.
TransportOrderWitness ==
  /\ Fetching("fetchWithRetry")
  /\ output.value = Settled("ok", "proxyService")
  /\ output.retryCount = 0
  /\ Len(output.trace) = 3

\* Attempt count has ended in failure: a later attempt was started, or its
\* backoff sleep or the final error is what follows.
Exhausted(count) ==
  \/ count < output.retryCount
  \/ count = output.retryCount /\ (output.next = -1 \/ output.value.status = "threw")

\* C25: an attempt is treated as failed only when every strategy of its
\* subset was contacted: the custom proxy and the direct request always,
\* the proxy service and each public proxy as well when useProxy is set.
\* A response that is not ok and a thrown error both let the next
\* strategy run.
ExhaustionAfterEveryStrategy ==
  Fetching("fetchWithRetry") =>
    /\ \A count \in 0..input.maxRetries :
         Exhausted(count) =>
           [k \in DOMAIN AttemptRequests(count) |-> AttemptRequests(count)[k].transport]
             = IF input.useProxy
               THEN <<"customProxy", "direct", "proxyService", "allorigins",
                      "corsproxy.io", "cors-anywhere">>
               ELSE <<"customProxy", "direct">>
    /\ /\ output.last \in {"notOk", "throws"}
       /\ Len(AttemptRequests(output.retryCount)) < (IF input.useProxy THEN 6 ELSE 2)
       => /\ output.value.status = "pending"
          /\ output.next = Len(AttemptRequests(output.retryCount)) + 1

ExhaustionAfterEveryStrategyWitness ==
  /\ Fetching("fetchWithRetry")
  /\ input.useProxy
  /\ output.value.status = "threw"
  /\ output.retryCount = 1
  /\ output.last = "notOk"

\* C26: the sleep after failed attempt retryCount lasts
\* initialDelay * 2^retryCount (1000, 2000, 4000 ms with the defaults), a
\* retry happens only while retryCount < maxRetries, and a fetch makes at
\* most maxRetries + 1 attempts.
BackoffSchedule ==
  Fetching("fetchWithRetry") =>
    /\ \A j \in 1..Len(Sleeps) :
         /\ Sleeps[j].retryCount = j - 1
         /\ Sleeps[j].retryCount < input.maxRetries
         /\ Sleeps[j].ms = input.initialDelay * 2^(j - 1)
    /\ output.retryCount <= input.maxRetries
    /\ \A j \in 1..Len(output.trace) : output.trace[j].retryCount <= input.maxRetries
    /\ (input.initialDelay = 1000 /\ input.maxRetries = 3
          /\ output.value.status = "threw")
         => [j \in DOMAIN Sleeps |-> Sleeps[j].ms] = <<1000, 2000, 4000>>

BackoffScheduleWitness ==
  /\ Fetching("fetchWithRetry")
  /\ input.initialDelay = DefaultInitialDelay
  /\ input.maxRetries = DefaultMaxRetries
  /\ output.value.status = "threw"
  /\ Len(Sleeps) = 3

(***************************************************************************)
(* Claims about pacing, overlapping cache misses and clearCache.           *)
(***************************************************************************)

\* C27: the order is grant, delay, request, release: a slot that is taken
\* is followed by the pacing sleep, the request starts only out of that
\* sleep with the slot held, and the slot is given back only after the
\* request.  The sleep is per acquisition: a caller that sleeps can go on
\* whatever the other callers do.
PacingBeforeRequest ==
  /\ [](\A p \in Callers : pc[p] = "pacing" => held[p] > 0 /\ ENABLED Pace(p))
  /\ [][\A p \in Callers :
          /\ held'[p] > held[p] => pc'[p] = "pacing"
          /\ (pc'[p] = "request" /\ pc[p] # "request")
               => pc[p] = "pacing" /\ held'[p] = held[p] /\ held[p] > 0
          /\ held'[p] < held[p] => pc[p] = "finally"
          /\ (pc'[p] = "finally" /\ pc[p] # "finally") => pc[p] = "request"]_vars

\* Two callers hold a slot each and sleep at the same time.
PacingBeforeRequestWitness ==
  \E p, q \in Callers :
    /\ p # q
    /\ pc[p] = "pacing"
    /\ pc[q] = "pacing"
    /\ activeRequests = 2

\* C28: a miss always invokes the producer, whether or not another call
\* for the same key is under way; a call that wrote returns the data it
\* fetched itself; an entry that changes is deleted or becomes the whole
\* entry of the call that writes it, with its data and the current time.
NoSingleFlight ==
  [][/\ \A c \in Clients :
          /\ /\ cpc[c] = "check"
             /\ ~IsValid(seen[c], now)
             /\ cpc'[c] # "check" \/ stack'[c] # stack[c]
             => producerCalls'[Top(c)] = producerCalls[Top(c)] + 1
          /\ (cpc[c] = "put" /\ cpc'[c] = "done")
               => ret'[c] = [status |-> "ok", data |-> val[c]]
     /\ \A k \in CacheKeys :
          store'[k] # store[k] =>
            \/ store'[k] = Absent
            \/ \E c \in Clients :
                 /\ cpc[c] = "put"
                 /\ stack'[c] # stack[c]
                 /\ Top(c) = k
                 /\ store'[k] = Item(val[c], now)]_vars

\* Two calls for one key overlapped, both producers ran, each call
\* returned its own payload, and the entry is that of the call that wrote
\* last, here the one that started first.
NoSingleFlightWitness ==
  \E k \in CacheKeys :
    /\ type = "xtream"
    /\ now = 0
    /\ producerCalls[k] = 2
    /\ ret[1] = [status |-> "ok", data |-> Payload(1)]
    /\ ret[2] = [status |-> "ok", data |-> Payload(2)]
    /\ store[k] = Item(Payload(1), 0)

\* C29: once a clearCache has completed, no entry of the store and not the
\* playlist hold contains data that a call had read or fetched before.
ClearNotUndone ==
  \A c \in Clients :
    stale[c] # EmptyList =>
      /\ \A k \in CacheKeys : store[k].kind = "item" => store[k].data # stale[c]
      /\ m3uCache # stale[c]

GuideParsed == output.calls >= 1 /\ "op" \in DOMAIN output /\ output.op = "parseEPGXML"

\* C32: after parseEPGXML the programmes of every channel are in ascending
\* order of the instant their start stamp stands for, in whatever order the
\* document lists them, for stamps in the raw form as for any other.
ProgrammesSorted ==
  GuideParsed =>
    \A n \in DOMAIN output.value :
      \A i, j \in DOMAIN output.value[n].programs :
        i < j => output.value[n].programs[i].startTime.at
                   <= output.value[n].programs[j].startTime.at

\* The channel the alias ids stand for, in what was parsed.
AETarget(channels) == FirstOf({i \in DOMAIN channels : IsAEChannel(channels[i])})

\* C33: an alias id that parseEPGXML registered for the A&E channel has the
\* programme list of that channel.
AliasSharesProgrammes ==
  GuideParsed =>
    \A n \in DOMAIN output.value :
      /\ \E a \in DOMAIN aeAlternativeIds : output.value[n].id = aeAlternativeIds[a]
      /\ \A e \in DOMAIN input.channels : input.channels[e].id # output.value[n].id
      => output.value[n].programs = output.value[AETarget(output.value)].programs

\* The channel a programme element belongs to, among the channels that
\* were parsed: the one of its raw channel id, else the one whose id is the
\* channel id normalized as a name; 0 for none.
ChannelOf(programme, channels) ==
  LET raw == {i \in DOMAIN channels : channels[i].id = programme.channel}
  IN IF raw # {} THEN LastOf(raw)
     ELSE IF programme.channel = <<>> THEN 0
     ELSE LET name == normalizeChannelName(programme.channel)
              normalized == {i \in DOMAIN channels : channels[i].id = name}
          IN IF normalized # {} THEN LastOf(normalized) ELSE 0

AsProgram(programme, channel) ==
  [title |-> programme.title, startTime |-> programme.start,
   endTime |-> programme.stop, channel |-> channel.name]

\* The programmes of channel n are those of the programme elements that
\* belong to it and that Keep admits, each once.
RetainedAre(Keep(_)) ==
  GuideParsed =>
    LET owner == [e \in DOMAIN input.programmes |->
                    ChannelOf(input.programmes[e], output.value)]
    IN \A n \in DOMAIN output.value :
         LET mine == {e \in DOMAIN input.programmes :
                        owner[e] = n /\ Keep(input.programmes[e])}
             programs == output.value[n].programs
         IN /\ Len(programs) = Cardinality(mine)
            /\ {programs[i] : i \in DOMAIN programs}
                 = {AsProgram(input.programmes[e], output.value[n]) : e \in mine}

KeepUnlessBothMissing(e) ==
  e.title # "" /\ ~(e.start = MissingAttribute /\ e.stop = MissingAttribute)

KeepWithBoth(e) ==
  e.title # "" /\ e.start # MissingAttribute /\ e.stop # MissingAttribute

\* C36: parseEPGXML keeps a programme if and only if its channel resolves,
\* its title is not empty and it is not missing both start and stop; it is
\* appended to that channel's list with its raw start and stop.
RetentionRule == RetainedAre(KeepUnlessBothMissing)

\* C36, amended: the same, with a programme kept only if it has both its
\* start and its stop.
RetentionRuleBoth == RetainedAre(KeepWithBoth)

\* A programme was kept for a channel found by its normalized id, and one
\* with a start and no stop was discarded.
RetentionRuleWitness ==
  /\ GuideParsed
  /\ \E e \in DOMAIN input.programmes :
       input.programmes[e].title = "open" /\ ChannelOf(input.programmes[e], output.value) # 0
  /\ \E n \in DOMAIN output.value :
       /\ output.value[n].id = IdESPN
       /\ Len(output.value[n].programs) = 1
       /\ output.value[n].programs[1].title = "match"

\* The normalized name is a key of the alias table.
IsKnownKey(normalizedName) ==
  \E i \in DOMAIN knownChannels : knownChannels[i][1] = normalizedName

\* What the stages after the alias table select.
LaterStages(channelName, channels) ==
  FirstFound(SubSeq(Strategies(channelName, channels), 2,
                    Len(Strategies(channelName, channels))))

\* C35: the alias table resolves a query only when its normalized form is
\* equal to a key; for any other query (one that contains a key, is
\* contained in one, or normalizes to the empty string) the table gives
\* nothing and findMatchingChannel returns what its later stages select.
AliasStageExact ==
  (/\ output.calls > 0
   /\ input.channelName # <<>>
   /\ input.channels # <<>>
   /\ ~IsKnownKey(normalizeChannelName(input.channelName)))
    => /\ getKnownChannelMapping(input.channelName) = NoString
       /\ output.value = LaterStages(input.channelName, input.channels)

ResolutionByStreamWitness ==
  /\ output.calls = 1
  /\ input.channelId # <<>>
  /\ ~input.catalog.threw
  /\ FindStream(input.catalog.streams, input.channelId) # NoStream
  /\ Len(output.value) = 1
  /\ output.value[1].id # input.channelId
  /\ <<output.value[1]>> # <<findMatchingChannel(input.channelId, filteredData(input.epgData))>>

\* The addresses of a list of streams, in its order.
UrlsOf(streams) == [i \in DOMAIN streams |-> streams[i].url]

\* The entries the playlist was written from, each with its address.
Written ==
  [k \in DOMAIN input.entries |->
     [entry |-> input.entries[k], url |-> PlaylistUrl(input.entries[k], k)]]

\* The URL line follows the #EXTINF line.
IsPair(w) == w.entry.between = "nothing"

StreamsCalled == output.calls = 1 /\ input.mode = "m3u" /\ output.op = "streams"

\* C37: a playlist query for a type and an optional category returns, in
\* document order, exactly the entries (#EXTINF line followed by a URL line)
\* that are classified as that type and whose group is the category, every
\* entry of the type when no category is asked for; and every entry is in
\* exactly one of the three queries without category, once.
PlaylistFiltering ==
  StreamsCalled =>
    LET Asked(w) ==
          /\ IsPair(w)
          /\ StreamTypeOf(w.entry.group, w.url) = output.type
          /\ Truthy(output.categoryId) => w.entry.group = output.categoryId
        expected == SelectSeq(Written, Asked)
        content == Playlist(input.entries)
        unfiltered == parseM3UToStreamType(content, "live", NoString)
                        \o parseM3UToStreamType(content, "movie", NoString)
                        \o parseM3UToStreamType(content, "series", NoString)
    IN /\ UrlsOf(output.value) = [i \in DOMAIN expected |-> expected[i].url]
       /\ \A i \in DOMAIN output.value :
            output.value[i].genres = <<expected[i].entry.group>>
       /\ \A k \in DOMAIN Written :
            IsPair(Written[k]) =>
              Cardinality({i \in DOMAIN unfiltered :
                             unfiltered[i].url = Written[k].url}) = 1

\* A query with a category returned an entry and passed over another entry
\* of the same type, and over an #EXTINF line that no URL line follows.
PlaylistFilteringWitness ==
  /\ StreamsCalled
  /\ Truthy(output.categoryId)
  /\ output.value # <<>>
  /\ \E k \in DOMAIN Written :
       /\ IsPair(Written[k])
       /\ StreamTypeOf(Written[k].entry.group, Written[k].url) = output.type
       /\ Written[k].entry.group # output.categoryId

\* C38: every category parseM3UCategories lists for a type selects at least
\* one stream of parseM3UToStreamType for that type, and the group of every
\* stream returned for a type is the id of a category listed for the type.
CategoriesAgreeWithStreams ==
  output.calls = 1 /\ input.mode = "m3u" =>
    LET content == Playlist(input.entries)
        categories == parseM3UCategories(content, output.type)
    IN /\ output.op = "categories" =>
            \A k \in DOMAIN output.value :
              parseM3UToStreamType(content, output.type, output.value[k].id) # <<>>
       /\ output.op = "streams" /\ ~Truthy(output.categoryId) =>
            \A i \in DOMAIN output.value :
              \E k \in DOMAIN categories : categories[k].id = output.value[i].genres[1]

\* C39: no two streams of the list one catalog call returns have the same
\* id, whether the list is mapped from a structured answer or parsed from a
\* playlist.
StreamIdsUnique ==
  output.calls = 1 /\ output.op \in {"streams", "xtream"} =>
    \A i, j \in DOMAIN output.value :
      output.value[i].id = output.value[j].id => i = j

====
